---- MODULE Spec2Model ----
(***************************************************************************)
(* gossh: batch SSH executor.                                              *)
(*                                                                         *)
(* Part 1 (SpecExec) models one run of Executor.executeConcurrent: the     *)
(* spawning loop, one goroutine per host (executeHostTask) with its three  *)
(* deferred calls, the semaphore channel, the WaitGroup, the shared        *)
(* results slice, the progress tracker, and the controller code that       *)
(* consumes the returned slice.                                            *)
(*                                                                         *)
(* Part 2 (SpecInv) models inventory resolution and group listing in       *)
(* package config as pure operators over tokenised file contents.          *)
(***************************************************************************)
EXTENDS Integers, Sequences, FiniteSets, TLC

(***************************************************************************)
(* Bounds                                                                  *)
(***************************************************************************)
MaxHosts == 3

(* Host addresses of a run; hosts[i].Address = AddrOf[i]. *)
AddrOf == <<"h1", "h2", "h3", "h4", "h5">>

(* Values passed as the concurrency argument. *)
Concurrencies == {0, 1, 2}

Nil == [nil |-> TRUE]

VARIABLES
    hosts,        \* e.hosts: sequence of Host records
    concurrency,  \* the concurrency argument of executeConcurrent
    mainpc,       \* position of the calling goroutine
    spawned,      \* number of iterations of the spawning loop done so far
    pc,           \* pc[i]: position of the goroutine of hosts[i]
    panicking,    \* panicking[i]: a panic is unwinding goroutine i
    outcome,      \* outcome[i]: what createSSHClient/task did for hosts[i]
    results,      \* the results slice (shared with the caller after return)
    semaphore,    \* number of elements in the semaphore channel
    wg,           \* WaitGroup counter
    tracker,      \* tracker[a]: notifications received for address a
    source,       \* inventory source under resolution
    resolved,     \* outcome of the last resolution
    earlier,      \* outcome of the resolution before it
    listed,       \* outcome of the group listing
    req,          \* RunCommandRequest after mergeConfig
    runpc,        \* position inside RunController.Execute
    runHosts,     \* the local variable hosts of RunController.Execute
    handed,       \* the hosts given to executor.NewExecutor
    response,     \* what RunController.Execute returned
    auth,         \* one client construction: credentials given and outcome
    remote,       \* files of the remote host: path -> content
    clock,        \* the second time.Now() falls in
    op,           \* the Client method under way and its arguments
    cpc,          \* position inside that method
    loc,          \* its local variables
    ret,          \* what the method returned: (result, err)
    prev,         \* the previous call: arguments, return, remote effects
    ctx,          \* the context of PingWithTimeout: live, timeout, cancelled
    ppc,          \* position of the goroutine running PingWithTimeout
    dialer,       \* the goroutine calling ssh.Dial: position and outcome
    dialCh,       \* content of the channel dialCh (capacity 1)
    opener,       \* the goroutine calling conn.NewSession: position, outcome
    sessionCh,    \* content of the channel sessionCh (capacity 1)
    sessionErrCh, \* content of the channel sessionErrCh (capacity 1)
    connState,    \* the connection ssh.Dial returned: none, open, closed
    sessState,    \* the session NewSession returned: none, open, closed
    pingRet       \* what PingWithTimeout returned and what executePing stored

execVars == <<hosts, concurrency, mainpc, spawned, pc, panicking,
              outcome, results, semaphore, wg, tracker>>
invVars == <<source, resolved, earlier, listed>>
runVars == <<req, runpc, runHosts, handed, response, auth>>
clientVars == <<remote, clock, op, cpc, loc, ret, prev>>
pingVars == <<ctx, ppc, dialer, dialCh, opener, sessionCh, sessionErrCh,
              connState, sessState, pingRet>>
laterVars == <<runVars, clientVars, pingVars>>
vars == <<hosts, concurrency, mainpc, spawned, pc, panicking,
          outcome, results, semaphore, wg, tracker, source, resolved,
          earlier, listed,
          req, runpc, runHosts, handed, response, auth,
          remote, clock, op, cpc, loc, ret, prev,
          ctx, ppc, dialer, dialCh, opener, sessionCh, sessionErrCh,
          connState, sessState, pingRet>>

(* No Client method has been called yet *)
NoOp == [kind |-> "none"]
ClientIdle ==
    /\ remote = <<>>
    /\ clock = 0
    /\ op = NoOp
    /\ cpc = "idle"
    /\ loc = Nil
    /\ ret = Nil
    /\ prev = Nil

(* PingWithTimeout has not been called *)
PingIdle ==
    /\ ctx = "none"
    /\ ppc = "idle"
    /\ dialer = Nil
    /\ dialCh = <<>>
    /\ opener = Nil
    /\ sessionCh = <<>>
    /\ sessionErrCh = <<>>
    /\ connState = "none"
    /\ sessState = "none"
    /\ pingRet = Nil

(* No executor has been created yet *)
NotHanded == [given |-> FALSE, hosts |-> <<>>, clients |-> <<>>]

(* The run controller before RunController.Execute is entered *)
RunIdle ==
    /\ req = Nil
    /\ runpc = "idle"
    /\ runHosts = <<>>
    /\ handed = NotHanded
    /\ response = Nil
    /\ auth = Nil

(***************************************************************************)
(* Part 1: the concurrent executor                                         *)
(***************************************************************************)
N == Len(hosts)
Idx == 1..N

(* normalizeConcurrency *)
normalizeConcurrency_plus1(c) == IF c <= 0 THEN 5 ELSE c + 1
normalizeConcurrency(c) == IF c <= 0 THEN 5 ELSE c

(* cap(semaphore): make(chan struct{}, concurrency) after normalisation *)
SemaphoreCap == normalizeConcurrency(concurrency)

(* createErrorResult: ExitCode -1, Error = err, Host = host *)
createErrorResult(host, err) ==
    [Host |-> host, ExitCode |-> -1, Error |-> err]

(* The *ssh.Result a task returns with a nil error: Host is the client's   *)
(* host (the address the client was built with), Error is nil.             *)
TaskResult(host, code) ==
    [Host |-> host, ExitCode |-> code, Error |-> "nil"]

(* results[idx] = r *)
StoreResult_firstFree(res, idx, r) ==
    LET free == {k \in DOMAIN res : res[k] = Nil}
    IN IF free = {} THEN [res EXCEPT ![idx] = r]
       ELSE [res EXCEPT ![CHOOSE k \in free : \A m \in free : k <= m] = r]
StoreResult(res, idx, r) == [res EXCEPT ![idx] = r]

(* if results[idx] == nil { results[idx] = r } *)
StoreIfNil(res, idx, r) ==
    IF res[idx] = Nil THEN StoreResult(res, idx, r) ELSE res

(* Calls of the progress tracker for address a, in order.  Every caller of *)
(* the executor passes a tracker (view.NewProgressTracker), so the         *)
(* "progressTracker != nil" guards are always taken.                       *)
Notify(trk, a, events) == [trk EXCEPT ![a] = @ \o events]

ExecInit ==
    /\ \E n \in 1..MaxHosts : hosts = [i \in 1..n |-> [Address |-> AddrOf[i]]]
    /\ concurrency \in Concurrencies
    /\ mainpc = "run"
    /\ spawned = 0
    /\ pc = [i \in Idx |-> "idle"]
    /\ panicking = [i \in Idx |-> FALSE]
    /\ outcome = [i \in Idx |-> "none"]
    /\ results = [i \in Idx |-> Nil]
    /\ semaphore = 0
    /\ wg = 0
    /\ tracker = [a \in {hosts[i].Address : i \in Idx} |-> <<>>]
    /\ source = <<>>
    /\ resolved = <<>>
    /\ earlier = <<>>
    /\ listed = <<>>
    /\ RunIdle
    /\ ClientIdle
    /\ PingIdle

(* for i, host := range e.hosts { wg.Add(1); go e.executeHostTask(...) } *)
Spawn ==
    /\ mainpc = "run"
    /\ spawned < N
    /\ spawned' = spawned + 1
    /\ wg' = wg + 1
    /\ pc' = [pc EXCEPT ![spawned + 1] = "start"]
    /\ UNCHANGED <<laterVars, invVars, hosts, concurrency, mainpc, panicking, outcome,
                   results, semaphore, tracker>>

(* executeHostTask up to the semaphore send: the defers of handleTaskPanic *)
(* and wg.Done are registered, AddTracker and UpdateTracker(10) are called *)
TaskStart(i) ==
    /\ pc[i] = "start"
    /\ tracker' = Notify(tracker, hosts[i].Address, <<"add", "update">>)
    /\ pc' = [pc EXCEPT ![i] = "acquire"]
    /\ UNCHANGED <<laterVars, invVars, hosts, concurrency, mainpc, spawned, panicking,
                   outcome, results, semaphore, wg>>

(* semaphore <- struct{}{} blocks while the channel is full; then the      *)
(* release is deferred and UpdateTracker(30) is called                     *)
Acquire(i) ==
    /\ pc[i] = "acquire"
    /\ semaphore < SemaphoreCap
    /\ semaphore' = semaphore + 1
    /\ tracker' = Notify(tracker, hosts[i].Address, <<"update">>)
    /\ pc' = [pc EXCEPT ![i] = "create"]
    /\ UNCHANGED <<laterVars, invVars, hosts, concurrency, mainpc, spawned, panicking,
                   outcome, results, wg>>

(* client, err := e.createSSHClient(h): a client (then UpdateTracker(60))  *)
(* or an error                                                             *)
CreateSSHClient(i) ==
    /\ pc[i] = "create"
    /\ \/ /\ pc' = [pc EXCEPT ![i] = "task"]
          /\ tracker' = Notify(tracker, hosts[i].Address, <<"update">>)
          /\ UNCHANGED outcome
       \/ /\ pc' = [pc EXCEPT ![i] = "connErr"]
          /\ outcome' = [outcome EXCEPT ![i] = "connErr"]
          /\ UNCHANGED tracker
    /\ UNCHANGED <<laterVars, invVars, hosts, concurrency, mainpc, spawned, results,
                   semaphore, wg, panicking>>

(* handleConnectionError: store the error result under mu, then            *)
(* MarkTrackerErrored                                                      *)
handleConnectionError(i) ==
    /\ pc[i] = "connErr"
    /\ results' = StoreResult(results, i,
                      createErrorResult(hosts[i].Address, "connect"))
    /\ tracker' = Notify(tracker, hosts[i].Address, <<"errored">>)
    /\ pc' = [pc EXCEPT ![i] = "release"]
    /\ UNCHANGED <<laterVars, invVars, hosts, concurrency, mainpc, spawned, panicking,
                   outcome, semaphore, wg>>

(* result, err := task(client, h): a result with exit code 0, a result     *)
(* with a non-zero exit code, an error, or a runtime fault in the remote   *)
(* operation, which starts unwinding through the deferred calls            *)
RunTask(i) ==
    /\ pc[i] = "task"
    /\ \/ /\ pc' = [pc EXCEPT ![i] = "success"]
          /\ \E o \in {"exit0", "exit1"} : outcome' = [outcome EXCEPT ![i] = o]
          /\ UNCHANGED panicking
       \/ /\ pc' = [pc EXCEPT ![i] = "taskErr"]
          /\ outcome' = [outcome EXCEPT ![i] = "taskErr"]
          /\ UNCHANGED panicking
       \/ /\ pc' = [pc EXCEPT ![i] = "release"]
          /\ outcome' = [outcome EXCEPT ![i] = "panic"]
          /\ panicking' = [panicking EXCEPT ![i] = TRUE]
    /\ UNCHANGED <<laterVars, invVars, hosts, concurrency, mainpc, spawned, results,
                   semaphore, wg, tracker>>

(* handleTaskError *)
handleTaskError_retry(i) ==
    /\ pc[i] = "taskErr"
    /\ pc' = [pc EXCEPT ![i] = "create"]
    /\ UNCHANGED <<laterVars, invVars, hosts, concurrency, mainpc, spawned, panicking,
                   outcome, results, semaphore, wg, tracker>>
handleTaskError(i) ==
    /\ pc[i] = "taskErr"
    /\ results' = StoreIfNil(results, i,
                      createErrorResult(hosts[i].Address, "task"))
    /\ tracker' = Notify(tracker, hosts[i].Address, <<"errored">>)
    /\ pc' = [pc EXCEPT ![i] = "release"]
    /\ UNCHANGED <<laterVars, invVars, hosts, concurrency, mainpc, spawned, panicking,
                   outcome, semaphore, wg>>

(* handleTaskSuccess *)
handleTaskSuccess_alwaysDone(i) ==
    LET result == TaskResult(hosts[i].Address,
                             IF outcome[i] = "exit0" THEN 0 ELSE 1)
    IN /\ pc[i] = "success"
       /\ results' = StoreResult(results, i, result)
       /\ tracker' = Notify(tracker, result.Host, <<"update", "done">>)
       /\ pc' = [pc EXCEPT ![i] = "release"]
       /\ UNCHANGED <<laterVars, invVars, hosts, concurrency, mainpc, spawned,
                      panicking, outcome, semaphore, wg>>
handleTaskSuccess(i) ==
    LET result == TaskResult(hosts[i].Address,
                             IF outcome[i] = "exit0" THEN 0 ELSE 1)
    IN /\ pc[i] = "success"
       /\ results' = StoreResult(results, i, result)
       /\ tracker' = Notify(tracker, result.Host,
                        IF result.ExitCode = 0 THEN <<"update", "done">>
                                               ELSE <<"errored">>)
       /\ pc' = [pc EXCEPT ![i] = "release"]
       /\ UNCHANGED <<laterVars, invVars, hosts, concurrency, mainpc, spawned,
                      panicking, outcome, semaphore, wg>>

(* Deferred calls run last-registered first: the semaphore release ...     *)
ReleaseSemaphore_notWhenUnwinding(i) ==
    /\ pc[i] = "release"
    /\ semaphore' = IF panicking[i] THEN semaphore ELSE semaphore - 1
    /\ pc' = [pc EXCEPT ![i] = "wgdone"]
    /\ UNCHANGED <<laterVars, invVars, hosts, concurrency, mainpc, spawned, panicking,
                   outcome, results, wg, tracker>>
ReleaseSemaphore(i) ==
    /\ pc[i] = "release"
    /\ semaphore' = semaphore - 1
    /\ pc' = [pc EXCEPT ![i] = "wgdone"]
    /\ UNCHANGED <<laterVars, invVars, hosts, concurrency, mainpc, spawned, panicking,
                   outcome, results, wg, tracker>>

(* ... then wg.Done() ...  The last deferred call, handleTaskPanic, runs   *)
(* after it; when no fault is unwinding its recover() returns nil and the  *)
(* call has no effect, so the goroutine is finished here.                  *)
WgDone(i) ==
    /\ pc[i] = "wgdone"
    /\ wg' = wg - 1
    /\ pc' = [pc EXCEPT ![i] = IF panicking[i] THEN "recover" ELSE "done"]
    /\ UNCHANGED <<laterVars, invVars, hosts, concurrency, mainpc, spawned, panicking,
                   outcome, results, semaphore, tracker>>

(* ... then handleTaskPanic with a fault unwinding: recover() stops it,    *)
(* the panic result is stored if the slot is still nil, and                *)
(* MarkTrackerErrored is called.  (Without the recover the fault would     *)
(* leave the goroutine and end the process with every other goroutine.)    *)
handleTaskPanic_noRecover(i) ==
    /\ pc[i] = "recover"
    /\ panicking[i]
    /\ mainpc' = "crashed"
    /\ pc' = [j \in Idx |-> IF pc[j] = "done" THEN "done" ELSE "aborted"]
    /\ UNCHANGED <<laterVars, invVars, hosts, concurrency, spawned, panicking, outcome,
                   results, semaphore, wg, tracker>>
handleTaskPanic(i) ==
    /\ pc[i] = "recover"
    /\ panicking[i]
    /\ results' = StoreIfNil(results, i,
                      createErrorResult(hosts[i].Address, "panic"))
    /\ tracker' = Notify(tracker, hosts[i].Address, <<"errored">>)
    /\ panicking' = [panicking EXCEPT ![i] = FALSE]
    /\ pc' = [pc EXCEPT ![i] = "done"]
    /\ UNCHANGED <<laterVars, invVars, hosts, concurrency, mainpc, spawned, outcome,
                   semaphore, wg>>

(* wg.Wait(); return results, nil *)
WaitReturn ==
    /\ mainpc = "run"
    /\ spawned = N
    /\ wg = 0
    /\ mainpc' = "returned"
    /\ UNCHANGED <<laterVars, invVars, hosts, concurrency, spawned, pc, panicking,
                   outcome, results, semaphore, wg, tracker>>

(* RunController.Execute after the run: the loop over results reads        *)
(* result.ExitCode of every entry; a nil entry is a nil dereference        *)
LogResults ==
    /\ mainpc = "returned"
    /\ mainpc' = IF \E i \in Idx : results[i] = Nil THEN "crashed" ELSE "logged"
    /\ UNCHANGED <<laterVars, invVars, hosts, concurrency, spawned, pc, panicking,
                   outcome, results, semaphore, wg, tracker>>

ExecNext ==
    \/ Spawn
    \/ WaitReturn
    \/ LogResults
    \/ \E i \in Idx : TaskStart(i)
    \/ \E i \in Idx : Acquire(i)
    \/ \E i \in Idx : CreateSSHClient(i)
    \/ \E i \in Idx : handleConnectionError(i)
    \/ \E i \in Idx : RunTask(i)
    \/ \E i \in Idx : handleTaskError(i)
    \/ \E i \in Idx : handleTaskSuccess(i)
    \/ \E i \in Idx : ReleaseSemaphore(i)
    \/ \E i \in Idx : WgDone(i)
    \/ \E i \in Idx : handleTaskPanic(i)

(***************************************************************************)
(* The run under the Go scheduler (SpecExecLive): the calling goroutine    *)
(* and every spawned goroutine take their next step whenever they can; a   *)
(* goroutine blocked on the semaphore send resumes once the channel has    *)
(* room.  createSSHClient and the task return or panic (RunTask,           *)
(* CreateSSHClient have no branch that stays).                             *)
(***************************************************************************)
MaxLiveHosts == 2

LiveInit ==
    /\ ExecInit
    /\ Len(hosts) <= MaxLiveHosts

MainStep == Spawn \/ WaitReturn
TaskStep(i) ==
    /\ i \in Idx
    /\ \/ TaskStart(i)
       \/ Acquire(i)
       \/ CreateSSHClient(i)
       \/ handleConnectionError(i)
       \/ RunTask(i)
       \/ handleTaskError(i)
       \/ handleTaskSuccess(i)
       \/ ReleaseSemaphore(i)
       \/ WgDone(i)
       \/ handleTaskPanic(i)

LiveNext == MainStep \/ LogResults \/ \E i \in 1..MaxLiveHosts : TaskStep(i)

SpecExecLive ==
    /\ LiveInit
    /\ [][LiveNext]_vars
    /\ WF_vars(MainStep)
    /\ \A i \in 1..MaxLiveHosts : WF_vars(TaskStep(i))

(***************************************************************************)
(* Properties of the executor                                              *)
(***************************************************************************)
(* Tasks that have passed the admission gate and not yet given the slot    *)
(* back.                                                                   *)
ActiveTasks ==
    {i \in Idx : pc[i] \in {"create", "connErr", "task", "taskErr",
                            "success", "release"}}

(* The last notification for hosts[i] is a terminal one. *)
HasTerminalNotification(i) ==
    LET t == tracker[hosts[i].Address]
    IN Len(t) > 0 /\ t[Len(t)] \in {"done", "errored"}

(* The result that hosts[i]'s own outcome determines. *)
OwnResult(i) ==
    CASE outcome[i] = "exit0"   -> [Host |-> hosts[i].Address, ExitCode |-> 0, Error |-> "nil"]
      [] outcome[i] = "exit1"   -> [Host |-> hosts[i].Address, ExitCode |-> 1, Error |-> "nil"]
      [] outcome[i] = "connErr" -> [Host |-> hosts[i].Address, ExitCode |-> -1, Error |-> "connect"]
      [] outcome[i] = "taskErr" -> [Host |-> hosts[i].Address, ExitCode |-> -1, Error |-> "task"]
      [] outcome[i] = "panic"   -> [Host |-> hosts[i].Address, ExitCode |-> -1, Error |-> "panic"]
      [] OTHER                  -> Nil

(* C1: under every interleaving the number of simultaneously active tasks  *)
(* (past the admission gate, not yet finished) never exceeds the           *)
(* concurrency limit C, where a limit <= 0 counts as 5.                    *)
C1_ActiveNeverExceedsLimit ==
    Cardinality(ActiveTasks) <= (IF concurrency <= 0 THEN 5 ELSE concurrency)

(* The gate is full and a further task is blocked at it. *)
C1_Witness ==
    /\ concurrency >= 1
    /\ Cardinality(ActiveTasks) = concurrency
    /\ \E i \in Idx : pc[i] = "acquire"

(* C2: when the run has returned, the result list has exactly one entry    *)
(* per input host: its length is N and no entry is nil, also for a host    *)
(* whose task ended in a recovered panic.                                  *)
C2_OneEntryPerHostAtReturn ==
    mainpc # "run" =>
        /\ DOMAIN results = 1..Len(hosts)
        /\ \A i \in Idx : results[i] # Nil

(* C3: the result stored at position i is the result of the task for       *)
(* hosts[i] (results[i].Host = hosts[i].Address), whatever the order of    *)
(* admission and completion.                                               *)
C3_ResultAtIndexOfItsHost ==
    \A i \in Idx : results[i] # Nil => results[i].Host = hosts[i].Address

(* The last host has stored its result while the first has not, and the    *)
(* run goes on to return with every slot filled.                           *)
C3_Witness ==
    /\ N >= 2
    /\ results[N] # Nil
    /\ results[N].Host = hosts[N].Address
    /\ results[1] = Nil
    /\ pc[1] \in {"acquire", "create", "task"}

(* C4: run returns only once every task is terminal: when run has          *)
(* returned, every task has stored its result, issued its last progress    *)
(* notification, and has no write or notification left to perform.         *)
C4_ReturnOnlyAfterAllTerminal ==
    mainpc # "run" =>
        \A i \in Idx : /\ results[i] # Nil
                       /\ HasTerminalNotification(i)
                       /\ pc[i] = "done"

(* C5: one host's failure never affects another host's outcome or the      *)
(* run's completion: when the run has returned, every host's entry is the  *)
(* result its own outcome determines, whatever the other hosts' tasks did  *)
(* (success, client failure, operation failure, panic), and the caller     *)
(* holds the full list.                                                    *)
C5_FailureIsolation ==
    mainpc # "run" =>
        /\ mainpc # "crashed"
        /\ \A i \in Idx : results[i] = OwnResult(i)

StageRank(p) ==
    CASE p = "idle"    -> 0
      [] p = "start"   -> 1
      [] p = "acquire" -> 2
      [] p = "create"  -> 3
      [] p = "connErr" -> 4
      [] p = "task"    -> 4
      [] p = "taskErr" -> 5
      [] p = "success" -> 5
      [] p = "release" -> 6
      [] p = "wgdone"  -> 7
      [] p = "recover" -> 8
      [] OTHER         -> 9

(* C21: there is no retry and a result is create-once: in every step a     *)
(* host's task only moves forward through its stages (so it constructs one *)
(* client and runs one operation at most), and a stored results[i] is      *)
(* never assigned again, replaced or modified - a failure is final.        *)
C21_NoRetryCreateOnce ==
    [][\A i \in Idx :
          /\ pc'[i] # pc[i] => StageRank(pc'[i]) > StageRank(pc[i])
          /\ results[i] # Nil => results'[i] = results[i]]_vars

(* A host's operation failed, its error result is stored and its task is   *)
(* over, while the run goes on to return and be read by the caller.        *)
C21_Witness ==
    /\ mainpc = "logged"
    /\ \E i \in Idx :
          /\ outcome[i] = "taskErr"
          /\ pc[i] = "done"
          /\ results[i] = createErrorResult(hosts[i].Address, "task")

(* The positions of the terminal notifications (MarkTrackerDone,           *)
(* MarkTrackerErrored) among those received for an address                 *)
Terminals(t) == {k \in 1..Len(t) : t[k] \in {"done", "errored"}}

(* C37: the tracker receives for every host AddTracker first, then updates *)
(* and at most one of MarkTrackerDone / MarkTrackerErrored, after which it *)
(* receives nothing more for the host; once the host's task is over it has *)
(* received exactly one, and it is MarkTrackerDone exactly when the stored *)
(* result has exit code 0.                                                 *)
C37_AddThenOneTerminalMatchingResult ==
    \A i \in Idx :
        LET t == tracker[hosts[i].Address]
        IN /\ \A k \in 1..Len(t) : (t[k] = "add") <=> (k = 1)
           /\ Terminals(t) \subseteq {Len(t)}
           /\ pc[i] = "done" =>
                 /\ Terminals(t) = {Len(t)}
                 /\ results[i] # Nil
                 /\ (t[Len(t)] = "done") <=> (results[i].ExitCode = 0)
C37_Witness ==
    /\ N = 3
    /\ \A i \in Idx : pc[i] = "done"
    /\ {outcome[i] : i \in Idx} = {"exit0", "exit1", "panic"}
    /\ \E i \in Idx : tracker[hosts[i].Address][Len(tracker[hosts[i].Address])] = "done"

SpecExec == ExecInit /\ [][ExecNext]_vars

(* Every spawned goroutine has run to its end and holds no slot, and       *)
(* executeConcurrent has returned                                          *)
RunOver ==
    /\ mainpc # "run"
    /\ spawned = N
    /\ \A i \in Idx : pc[i] = "done"
    /\ semaphore = 0
    /\ wg = 0

(* C36: when client construction and the remote operation of every task    *)
(* terminate, every spawned task gets through the semaphore and runs to    *)
(* its end, every slot is given back (also when the task panics), and      *)
(* executeConcurrent returns: no task waits at the semaphore forever.      *)
C36_EveryTaskAdmittedAndRunReturns == <>[]RunOver
C36_Witness ==
    /\ RunOver
    /\ N = 2 /\ concurrency = 1
    /\ \E i \in Idx : outcome[i] = "panic"
    /\ \E i \in Idx : outcome[i] = "connErr"

(***************************************************************************)
(* Part 2: inventory resolution (package config, controller.LoadHosts)     *)
(*                                                                         *)
(* A string is a sequence of tokens: the characters the code looks at      *)
(* ("@", ":", "[", "]", "#", ",", " ") are tokens of their own and every    *)
(* other token is a run of ordinary characters.  Join gives the string.    *)
(***************************************************************************)
MaxLines == 3       \* lines of the first (or only) file of a source
MaxLines2 == 2      \* lines of every further file
MaxParts == 3       \* entries of a literal address list

RECURSIVE Join(_)
Join(ts) == IF ts = <<>> THEN "" ELSE Head(ts) \o Join(Tail(ts))

RECURSIVE JoinWith(_, _)
(* strings.Join(strs, sep) *)
JoinWith(strs, sep) ==
    IF strs = <<>> THEN ""
    ELSE IF Len(strs) = 1 THEN strs[1]
    ELSE strs[1] \o sep \o JoinWith(Tail(strs), sep)

RECURSIVE TrimLeft(_)
TrimLeft(ts) ==
    IF ts # <<>> /\ Head(ts) = " " THEN TrimLeft(Tail(ts)) ELSE ts
RECURSIVE TrimRight(_)
TrimRight(ts) ==
    IF ts # <<>> /\ ts[Len(ts)] = " "
      THEN TrimRight(SubSeq(ts, 1, Len(ts) - 1)) ELSE ts
(* strings.TrimSpace *)
TrimSpace(ts) == TrimRight(TrimLeft(ts))

(* strings.Index / strings.LastIndex, 1-based, 0 when absent *)
Index(ts, c) ==
    IF \E k \in 1..Len(ts) : ts[k] = c
      THEN CHOOSE k \in 1..Len(ts) : ts[k] = c /\ \A m \in 1..(k-1) : ts[m] # c
      ELSE 0
LastIndex(ts, c) ==
    IF \E k \in 1..Len(ts) : ts[k] = c
      THEN CHOOSE k \in 1..Len(ts) :
               ts[k] = c /\ \A m \in (k+1)..Len(ts) : ts[m] # c
      ELSE 0

RECURSIVE Split(_, _)
(* strings.Split(s, sep) *)
Split(ts, sep) ==
    LET k == Index(ts, sep)
    IN IF k = 0 THEN <<ts>>
       ELSE <<SubSeq(ts, 1, k - 1)>> \o Split(SubSeq(ts, k + 1, Len(ts)), sep)

Elems(seq) == {seq[k] : k \in 1..Len(seq)}

(* parseGroups *)
RECURSIVE parseGroupParts(_, _)
parseGroupParts(parts, groups) ==
    IF parts = <<>> THEN groups
    ELSE LET part == Join(TrimSpace(Head(parts)))
         IN IF part = "" THEN parseGroupParts(Tail(parts), groups)
            ELSE IF part = "all" THEN <<>>
            ELSE IF part \in Elems(groups)
                   THEN parseGroupParts(Tail(parts), groups)
            ELSE parseGroupParts(Tail(parts), Append(groups, part))
parseGroups_allIsAName(groupStr) ==
    IF Join(groupStr) = "" THEN <<>>
    ELSE IF Join(groupStr) = "all" THEN <<"all">>
    ELSE parseGroupParts(Split(groupStr, ","), <<>>)
parseGroups(groupStr) ==
    IF Join(groupStr) = "" \/ Join(groupStr) = "all" THEN <<>>
    ELSE parseGroupParts(Split(groupStr, ","), <<>>)

(* isGroupMatch *)
isGroupMatch(hostGroup, targetGroups) ==
    IF Len(targetGroups) = 0 THEN TRUE
    ELSE \E k \in 1..Len(targetGroups) : hostGroup = targetGroups[k]

(* parseHostLine *)
parseHostLine(line) ==
    LET at   == Index(line, "@")
        rest == IF at # 0 THEN SubSeq(line, at + 1, Len(line)) ELSE line
        col  == LastIndex(rest, ":")
    IN [Address |-> IF col # 0 THEN Join(SubSeq(rest, 1, col - 1))
                               ELSE Join(rest),
        Port    |-> IF col # 0 THEN Join(SubSeq(rest, col + 1, Len(rest)))
                               ELSE "22",
        User    |-> IF at # 0 THEN Join(SubSeq(line, 1, at - 1)) ELSE "",
        KeyPath |-> "",
        Groups  |-> <<>>]

(* key := fmt.Sprintf("%s:%s", host.Address, host.Port) *)
hostKey(h) == h.Address \o ":" \o h.Port

(* line == "" || strings.HasPrefix(line, "#") *)
IsBlankOrComment(line) == line = <<>> \/ Head(line) = "#"

(* sectionPattern ^\s*\[(.+)\]\s*$ applied to a trimmed line *)
IsSection(line) ==
    Len(line) >= 3 /\ line[1] = "[" /\ line[Len(line)] = "]"
SectionName(line) == Join(TrimSpace(SubSeq(line, 2, Len(line) - 1)))

(* detectINIFormat *)
detectINIFormat_firstLineOnly(lines) ==
    lines # <<>> /\ IsSection(TrimSpace(lines[1]))
detectINIFormat(lines) ==
    \E k \in 1..Len(lines) :
        LET line == TrimSpace(lines[k])
        IN ~IsBlankOrComment(line) /\ IsSection(line)

(* loadHostsFromINIWithGroups *)
RECURSIVE ScanINI(_, _)
ScanINI(lines, currentGroup) ==
    IF lines = <<>> THEN <<>>
    ELSE LET line == TrimSpace(Head(lines))
         IN IF IsBlankOrComment(line) THEN ScanINI(Tail(lines), currentGroup)
            ELSE IF IsSection(line)
                   THEN ScanINI(Tail(lines), SectionName(line))
            ELSE <<[host |-> parseHostLine(line), group |-> currentGroup]>>
                     \o ScanINI(Tail(lines), currentGroup)
loadHostsFromINIWithGroups(lines) == ScanINI(lines, "")

(* loadHostsFromPlainWithGroups *)
RECURSIVE loadHostsFromPlainWithGroups(_)
loadHostsFromPlainWithGroups(lines) ==
    IF lines = <<>> THEN <<>>
    ELSE LET line == TrimSpace(Head(lines))
         IN IF IsBlankOrComment(line)
              THEN loadHostsFromPlainWithGroups(Tail(lines))
              ELSE <<[host |-> parseHostLine(line), group |-> ""]>>
                       \o loadHostsFromPlainWithGroups(Tail(lines))

(* Outcomes of the loaders: a host list or an error.  An error carries the *)
(* text its message interpolates (arg), "" when it interpolates nothing.   *)
Ok(hs) == [ok |-> TRUE, hosts |-> hs, err |-> Nil]
Err(kind, arg) == [ok |-> FALSE, hosts |-> <<>>, err |-> [kind |-> kind, arg |-> arg]]

(* loadHostsFromFileWithGroups: os.Open fails on an unreadable file *)
loadHostsFromFileWithGroups(file) ==
    IF ~file.readable THEN [ok |-> FALSE, hwgs |-> <<>>]
    ELSE [ok |-> TRUE,
          hwgs |-> IF detectINIFormat(file.lines)
                     THEN loadHostsFromINIWithGroups(file.lines)
                     ELSE loadHostsFromPlainWithGroups(file.lines)]

(* map[string][]string: a missing key reads as the nil slice *)
MapGet(m, k) == IF k \in DOMAIN m THEN m[k] ELSE <<>>
MapPut(m, k, v) == [x \in DOMAIN m \cup {k} |-> IF x = k THEN v ELSE m[x]]
EmptyMap == [x \in {} |-> <<>>]

(* The loop that builds hostGroupsMap *)
RECURSIVE buildHostGroupsMap(_, _, _)
buildHostGroupsMap(hwgs, targetGroups, m) ==
    IF hwgs = <<>> THEN m
    ELSE LET hwg == Head(hwgs)
             key == hostKey(hwg.host)
         IN IF Len(targetGroups) > 0 /\ ~isGroupMatch(hwg.group, targetGroups)
              THEN buildHostGroupsMap(Tail(hwgs), targetGroups, m)
            ELSE IF hwg.group # "" /\ hwg.group \notin Elems(MapGet(m, key))
              THEN buildHostGroupsMap(Tail(hwgs), targetGroups,
                       MapPut(m, key, Append(MapGet(m, key), hwg.group)))
            ELSE buildHostGroupsMap(Tail(hwgs), targetGroups, m)

(* The loop that builds the host list: first occurrence per key, among the *)
(* occurrences whose group passes the filter                               *)
RECURSIVE buildHosts(_, _, _, _)
buildHosts(hwgs, targetGroups, groupsMap, hostMap) ==
    IF hwgs = <<>> THEN <<>>
    ELSE LET hwg == Head(hwgs)
             key == hostKey(hwg.host)
         IN IF Len(targetGroups) > 0 /\ ~isGroupMatch(hwg.group, targetGroups)
              THEN buildHosts(Tail(hwgs), targetGroups, groupsMap, hostMap)
            ELSE IF key \notin hostMap
              THEN <<[hwg.host EXCEPT !.Groups = MapGet(groupsMap, key)]>>
                     \o buildHosts(Tail(hwgs), targetGroups, groupsMap,
                                   hostMap \cup {key})
            ELSE buildHosts(Tail(hwgs), targetGroups, groupsMap, hostMap)

(* LoadHostsFromFileWithGroup *)
LoadHostsFromFileWithGroup(file, group) ==
    LET targetGroups == parseGroups(group)
        loaded == loadHostsFromFileWithGroups(file)
        groupsMap == buildHostGroupsMap(loaded.hwgs, targetGroups, EmptyMap)
        hs == buildHosts(loaded.hwgs, targetGroups, groupsMap, {})
    IN IF ~loaded.ok THEN Err("open", "")
       ELSE IF Len(targetGroups) > 0 /\ Len(hs) = 0
         THEN Err("noGroup", JoinWith(targetGroups, ","))
       ELSE Ok(hs)

(* LoadHostsFromDirectory, the walk: every readable file's host+group      *)
(* pairs, keeping only the first pair of each key                          *)
RECURSIVE dedupPairs(_, _)
dedupPairs(hwgs, hostMap) ==
    IF hwgs = <<>> THEN <<>>
    ELSE LET key == hostKey(Head(hwgs).host)
         IN IF key \notin hostMap
              THEN <<Head(hwgs)>> \o dedupPairs(Tail(hwgs), hostMap \cup {key})
              ELSE dedupPairs(Tail(hwgs), hostMap)
RECURSIVE walkPairs(_)
walkPairs(files) ==
    IF files = <<>> THEN <<>>
    ELSE LET loaded == loadHostsFromFileWithGroups(Head(files))
         IN (IF loaded.ok THEN loaded.hwgs ELSE <<>>) \o walkPairs(Tail(files))
aggregateDirectory(files) == dedupPairs(walkPairs(files), {})

(* LoadHostsFromDirectory; files are the files the walk reads, in walk     *)
(* order                                                                   *)
LoadHostsFromDirectory(files, group) ==
    LET targetGroups == parseGroups(group)
        allHostsWithGroup == aggregateDirectory(files)
        groupsMap == buildHostGroupsMap(allHostsWithGroup, targetGroups, EmptyMap)
        resultHosts == buildHosts(allHostsWithGroup, targetGroups, groupsMap, {})
    IN IF Len(resultHosts) = 0
         THEN IF Len(targetGroups) = 0 THEN Err("dirEmpty", "")
              ELSE Err("noGroup", JoinWith(targetGroups, ","))
         ELSE Ok(resultHosts)

(* LoadHostsFromString *)
RECURSIVE parseHostParts(_)
parseHostParts(parts) ==
    IF parts = <<>> THEN <<>>
    ELSE LET part == TrimSpace(Head(parts))
         IN IF part = <<>> THEN parseHostParts(Tail(parts))
            ELSE <<parseHostLine(part)>> \o parseHostParts(Tail(parts))
LoadHostsFromString(hostsStr) ==
    IF hostsStr = <<>> THEN Err("emptyString", "")
    ELSE Ok(parseHostParts(Split(hostsStr, ",")))

(* loadHostsFromInventoryFile *)
loadHostsFromInventoryFile(file, group) ==
    LET targetGroups == parseGroups(group)
        loaded == loadHostsFromFileWithGroups(file)
        groupsMap == buildHostGroupsMap(loaded.hwgs, targetGroups, EmptyMap)
    IN IF ~loaded.ok THEN Err("open", "")
       ELSE Ok(buildHosts(loaded.hwgs, targetGroups, groupsMap, {}))

(* loadHostsFromInventoryPath: os.Stat, then directory or file *)
loadHostsFromInventoryPath(path, group) ==
    IF path.kind = "missing" THEN Err("noPath", "")
    ELSE IF path.kind = "dir" THEN LoadHostsFromDirectory(path.files, group)
    ELSE loadHostsFromInventoryFile(path.files[1], group)

(* mergeHostsWithDedup, as a list and the keys seen so far *)
RECURSIVE mergeHostsWithDedup(_, _, _)
mergeHostsWithDedup(allHosts, newHosts, hostMap) ==
    IF newHosts = <<>> THEN [hosts |-> allHosts, seen |-> hostMap]
    ELSE LET key == hostKey(Head(newHosts))
         IN IF key \notin hostMap
              THEN mergeHostsWithDedup(Append(allHosts, Head(newHosts)),
                                       Tail(newHosts), hostMap \cup {key})
              ELSE mergeHostsWithDedup(allHosts, Tail(newHosts), hostMap)

(* LoadHostsFromInventory; paths are the entries of the comma-separated    *)
(* inventory value as os.Stat finds them; a path that fails to load is     *)
(* skipped with a warning                                                  *)
RECURSIVE mergeInventoryPaths(_, _, _, _)
mergeInventoryPaths(paths, group, allHosts, hostMap) ==
    IF paths = <<>> THEN allHosts
    ELSE LET r == loadHostsFromInventoryPath(Head(paths), group)
             merged == mergeHostsWithDedup(allHosts, r.hosts, hostMap)
         IN IF ~r.ok THEN mergeInventoryPaths(Tail(paths), group, allHosts, hostMap)
            ELSE mergeInventoryPaths(Tail(paths), group, merged.hosts, merged.seen)
LoadHostsFromInventory(paths, group) ==
    IF paths = <<>> THEN Err("inventoryUnset", "")
    ELSE LET allHosts == mergeInventoryPaths(paths, group, <<>>, {})
         IN IF Len(allHosts) = 0 THEN Err("inventoryEmpty", "")
            ELSE Ok(allHosts)

(***************************************************************************)
(* The callback of filepath.Walk.  A node of a directory tree is a record  *)
(* [dir, name, isDir, file]: the names of the directories between the root *)
(* and the node, its own name as tokens, and the file it is.               *)
(***************************************************************************)
(* strings.HasPrefix(name, ".") *)
HasDotPrefix(name) == name # <<>> /\ name[1] = "."

(* filepath.Ext: the suffix of the name that starts at its last dot *)
Ext(name) ==
    LET k == LastIndex(name, ".")
    IN IF k = 0 THEN <<>> ELSE SubSeq(name, k, Len(name))

(* strings.ToLower *)
ToLower(ts) ==
    [k \in 1..Len(ts) |->
        CASE ts[k] = "INI" -> "ini"
          [] ts[k] = "TXT" -> "txt"
          [] OTHER -> ts[k]]

supportedExts ==
    { <<".", "ini">>, <<".", "txt">>, <<".", "conf">>, <<".", "hosts">>, <<>> }

(* The walk callback up to the loading of the file: every branch returns   *)
(* nil, so the walk goes on into every directory                           *)
walkFn(node) ==
    IF node.isDir THEN "descend"
    ELSE IF HasDotPrefix(node.name) THEN "skipped"
    ELSE IF ToLower(Ext(node.name)) \notin supportedExts THEN "skipped"
    ELSE "read"

(* The files the callback loads, in walk order *)
RECURSIVE WalkedFiles(_)
WalkedFiles(nodes) ==
    IF nodes = <<>> THEN <<>>
    ELSE (IF walkFn(Head(nodes)) = "read" THEN <<Head(nodes).file>> ELSE <<>>)
           \o WalkedFiles(Tail(nodes))

(* loadHostsFromConfig: os.Stat(cfg.Inventory) decides file, directory or  *)
(* literal list; errors are wrapped with %w and keep their text            *)
loadHostsFromConfig(src, group) ==
    IF src.kind = "tree"
      THEN LoadHostsFromDirectory(WalkedFiles(src.nodes), group)
    ELSE IF src.kind = "dir" THEN LoadHostsFromDirectory(src.files, group)
    ELSE IF src.kind = "file" THEN LoadHostsFromFileWithGroup(src.files[1], group)
    ELSE IF Index(src.text, ",") # 0 THEN LoadHostsFromString(src.text)
    ELSE Err("invalidFormat", Join(src.text))

(* LoadHosts(cfg, requireHosts = true): with no -i value the inventory of  *)
(* ansible.cfg is used                                                     *)
LoadHosts(src, group) ==
    IF src.kind = "inventory" THEN LoadHostsFromInventory(src.paths, group)
    ELSE LET r == loadHostsFromConfig(src, group)
         IN IF ~r.ok THEN r
            ELSE IF Len(r.hosts) = 0 THEN Err("emptyHosts", "")
            ELSE r

(***************************************************************************)
(* Inputs of the resolution                                                *)
(***************************************************************************)
(* Lines of inventory files *)
FileLines ==
    { <<"[", "web", "]">>, <<"[", "web2", "]">>,
      <<"a">>, <<"b">>, <<"u", "@", "a", ":", "22">> }

(* Entries of a literal address list *)
ListParts == { <<"a">>, <<" ", "b">>, <<"a", ":", "22">>, <<"u", "@", "a">>, <<>> }

(* Group expressions (-g) *)
GroupExprs ==
    { <<>>, <<"all">>, <<"web">>, <<"web2">>, <<"web", ",", " ", "web2">>,
      <<"web2", ",", "web", ",", "web2">>, <<"web", ",", "all">> }

SeqsUpTo(S, n) == UNION {[1..k -> S] : k \in 0..n}

ReadableFiles(n) == {[readable |-> TRUE, lines |-> ls] : ls \in SeqsUpTo(FileLines, n)}
Unreadable == [readable |-> FALSE, lines |-> <<>>]

RECURSIVE CommaList(_)
CommaList(parts) ==
    IF parts = <<>> THEN <<>>
    ELSE IF Len(parts) = 1 THEN parts[1]
    ELSE parts[1] \o <<",">> \o CommaList(Tail(parts))

InventoryPaths(n) ==
    {[kind |-> "missing", files |-> <<>>]}
      \cup {[kind |-> "file", files |-> <<f>>] : f \in ReadableFiles(n)}
      \cup {[kind |-> "dir", files |-> <<f>>] : f \in ReadableFiles(n)}

(* The sources whose first file has at most n lines, whose second file and *)
(* inventory files have at most n2 lines, and whose literal lists have at  *)
(* most k entries                                                          *)
Sources(n, n2, k) ==
    {[kind |-> "file", files |-> <<f>>] :
         f \in ReadableFiles(n) \cup {Unreadable}}
    \cup {[kind |-> "dir", files |-> <<f>>] : f \in ReadableFiles(n)}
    \cup {[kind |-> "dir", files |-> <<f, g>>] :
              f \in ReadableFiles(n) \cup {Unreadable},
              g \in ReadableFiles(n2)}
    \cup {[kind |-> "string", text |-> CommaList(ps)] :
              ps \in SeqsUpTo(ListParts, k) \ {<<>>}}
    \cup {[kind |-> "inventory", paths |-> <<p>>] : p \in InventoryPaths(n2)}
    \cup {[kind |-> "inventory", paths |-> <<p, q>>] :
              p \in InventoryPaths(n2),
              q \in {x \in InventoryPaths(n2) : x.kind # "dir"}}

NoCall == [fn |-> "none"]

InvInit ==
    /\ source \in Sources(MaxLines, MaxLines2, MaxParts)
    /\ resolved = NoCall
    /\ earlier = NoCall
    /\ listed = NoCall
    /\ hosts = <<>>
    /\ concurrency = 0
    /\ mainpc = "idle"
    /\ spawned = 0
    /\ pc = <<>>
    /\ panicking = <<>>
    /\ outcome = <<>>
    /\ results = <<>>
    /\ semaphore = 0
    /\ wg = 0
    /\ tracker = <<>>
    /\ RunIdle
    /\ ClientIdle
    /\ PingIdle

(***************************************************************************)
(* Group listing (gossh list-group)                                        *)
(***************************************************************************)
(* Outcomes of the group loaders: a list of group names or an error *)
GroupsOk(gs) == [ok |-> TRUE, groups |-> gs, err |-> Nil]
GroupsErr(kind, arg) ==
    [ok |-> FALSE, groups |-> <<>>, err |-> [kind |-> kind, arg |-> arg]]

(* if !groupSet[group] { groupSet[group] = true; append } for each group *)
RECURSIVE appendNewGroups(_, _)
appendNewGroups(allGroups, groups) ==
    IF groups = <<>> THEN allGroups
    ELSE IF Head(groups) \in Elems(allGroups)
           THEN appendNewGroups(allGroups, Tail(groups))
    ELSE appendNewGroups(Append(allGroups, Head(groups)), Tail(groups))

(* loadGroupsFromINI *)
RECURSIVE loadGroupsFromINI(_)
loadGroupsFromINI(lines) ==
    IF lines = <<>> THEN <<>>
    ELSE LET line == TrimSpace(Head(lines))
             rest == loadGroupsFromINI(Tail(lines))
         IN IF IsBlankOrComment(line) \/ ~IsSection(line) THEN rest
            ELSE appendNewGroups(<<SectionName(line)>>, rest)

(* LoadGroupsFromFile *)
LoadGroupsFromFile(file) ==
    IF ~file.readable THEN GroupsErr("open", "")
    ELSE IF detectINIFormat(file.lines)
      THEN GroupsOk(loadGroupsFromINI(file.lines))
    ELSE GroupsOk(<<>>)

(* LoadGroupsFromDirectory: the walk; a file that fails to load is skipped *)
RECURSIVE walkGroups(_, _)
walkGroups(files, allGroups) ==
    IF files = <<>> THEN allGroups
    ELSE LET r == LoadGroupsFromFile(Head(files))
         IN walkGroups(Tail(files),
                       IF r.ok THEN appendNewGroups(allGroups, r.groups)
                               ELSE allGroups)
LoadGroupsFromDirectory(files) == GroupsOk(walkGroups(files, <<>>))

(* loadGroupsFromInventoryPath *)
loadGroupsFromInventoryPath(path) ==
    IF path.kind = "missing" THEN GroupsErr("noPath", "")
    ELSE IF path.kind = "dir" THEN LoadGroupsFromDirectory(path.files)
    ELSE LoadGroupsFromFile(path.files[1])

(* LoadGroupsFromInventory: a path that fails to load is skipped *)
RECURSIVE mergeInventoryGroups(_, _)
mergeInventoryGroups(paths, allGroups) ==
    IF paths = <<>> THEN allGroups
    ELSE LET r == loadGroupsFromInventoryPath(Head(paths))
         IN mergeInventoryGroups(Tail(paths),
                IF r.ok THEN appendNewGroups(allGroups, r.groups)
                        ELSE allGroups)
LoadGroupsFromInventory(paths) ==
    IF paths = <<>> THEN GroupsErr("inventoryUnset", "")
    ELSE GroupsOk(mergeInventoryGroups(paths, <<>>))

(* loadGroupsFromConfig: os.Stat(inventory) decides file, directory or     *)
(* literal list                                                            *)
loadGroupsFromConfig(src) ==
    IF src.kind = "tree" THEN LoadGroupsFromDirectory(WalkedFiles(src.nodes))
    ELSE IF src.kind = "dir" THEN LoadGroupsFromDirectory(src.files)
    ELSE IF src.kind = "file" THEN LoadGroupsFromFile(src.files[1])
    ELSE IF Index(src.text, ",") # 0 THEN GroupsOk(<<>>)
    ELSE GroupsErr("invalidFormat", Join(src.text))

(* loadGroups: with no -i value the inventory of ansible.cfg is used *)
loadGroups(src) ==
    IF src.kind = "inventory" THEN LoadGroupsFromInventory(src.paths)
    ELSE loadGroupsFromConfig(src)

(* A command resolves its hosts, once per invocation: controller.LoadHosts *)
(* with the -g value                                                       *)
ResolveHosts ==
    /\ resolved = NoCall
    /\ \E g \in GroupExprs :
          resolved' = [fn |-> "LoadHosts", group |-> g, out |-> LoadHosts(source, g)]
    /\ UNCHANGED <<laterVars, source, earlier, listed, execVars>>

(* gossh list-group: ListGroupController.Execute, loadGroups *)
ListGroups ==
    /\ listed = NoCall
    /\ listed' = [fn |-> "loadGroups", out |-> loadGroups(source)]
    /\ UNCHANGED <<laterVars, source, resolved, earlier, execVars>>

InvNext ==
    \/ ResolveHosts
    \/ ListGroups

SpecInv == InvInit /\ [][InvNext]_vars

(***************************************************************************)
(* One inventory file (SpecFile): loadHostsFromFileWithGroups on files     *)
(* with headers, commented headers, indented headers and host lines        *)
(***************************************************************************)
MaxFileLines == 3

FileLinesWithComments ==
    FileLines \cup { <<"#", "[", "web", "]">>, <<" ", "[", " ", "web2", "]", " ">>,
                     <<"u", "@", "b">>, <<"a", ":">> }

FileInit ==
    /\ source \in {[kind |-> "file", files |-> <<[readable |-> TRUE, lines |-> ls]>>] :
                      ls \in SeqsUpTo(FileLinesWithComments, MaxFileLines)}
    /\ resolved = NoCall
    /\ earlier = NoCall
    /\ listed = NoCall
    /\ hosts = <<>>
    /\ concurrency = 0
    /\ mainpc = "idle"
    /\ spawned = 0
    /\ pc = <<>>
    /\ panicking = <<>>
    /\ outcome = <<>>
    /\ results = <<>>
    /\ semaphore = 0
    /\ wg = 0
    /\ tracker = <<>>
    /\ RunIdle
    /\ ClientIdle
    /\ PingIdle

(* hostsWithGroups, err := loadHostsFromFileWithGroups(filePath) *)
LoadFile ==
    /\ resolved = NoCall
    /\ resolved' = [fn |-> "loadHostsFromFileWithGroups",
                    out |-> loadHostsFromFileWithGroups(source.files[1])]
    /\ UNCHANGED <<laterVars, source, earlier, listed, execVars>>

FileNext == LoadFile

SpecFile == FileInit /\ [][FileNext]_vars

(* The lines of the file, without the white space around them; those that  *)
(* are neither blank nor a comment; those shaped like a header             *)
LineOf(k) == TrimSpace(source.files[1].lines[k])
ContentLines ==
    {k \in 1..Len(source.files[1].lines) : LineOf(k) # <<>> /\ LineOf(k)[1] # "#"}
HeaderLines ==
    {k \in ContentLines :
        LET l == LineOf(k) IN Len(l) > 2 /\ l[1] = "[" /\ l[Len(l)] = "]"}
HostLines == ContentLines \ HeaderLines
NthHostLine(n) ==
    CHOOSE k \in HostLines : Cardinality({j \in HostLines : j < k}) = n - 1
HeaderAbove(k) ==
    CHOOSE j \in HeaderLines : j < k /\ \A m \in HeaderLines : m < k => m <= j
GroupOfLine(k) ==
    IF \E j \in HeaderLines : j < k
      THEN Join(TrimSpace(SubSeq(LineOf(HeaderAbove(k)), 2,
                                 Len(LineOf(HeaderAbove(k))) - 1)))
      ELSE ""

(* C34: a file with a header line anywhere yields one (host, group) pair   *)
(* per host line, in order, whose group is the name of the nearest header  *)
(* above the line, and no group for a line above the first header; a file  *)
(* without a header line yields every line as a host without a group.      *)
C34_HostBelongsToLastHeaderAbove ==
    (resolved # NoCall /\ resolved.fn = "loadHostsFromFileWithGroups") =>
        /\ resolved.out.ok
        /\ Len(resolved.out.hwgs) = Cardinality(HostLines)
        /\ \A n \in 1..Len(resolved.out.hwgs) :
              /\ resolved.out.hwgs[n].host = parseHostLine(LineOf(NthHostLine(n)))
              /\ resolved.out.hwgs[n].group = GroupOfLine(NthHostLine(n))
C34_Witness ==
    /\ resolved # NoCall /\ resolved.fn = "loadHostsFromFileWithGroups"
    /\ Len(resolved.out.hwgs) = 2
    /\ resolved.out.hwgs[1].group = ""
    /\ resolved.out.hwgs[2].group = "web2"
    /\ HeaderLines = {2}

(* The port written in an entry [user@]host[:port]: what follows its last  *)
(* colon, "" when the entry has no colon or nothing after it               *)
WrittenPort(l) ==
    IF \E k \in 1..Len(l) : l[k] = ":"
      THEN LET c == CHOOSE k \in 1..Len(l) :
                       l[k] = ":" /\ \A m \in (k + 1)..Len(l) : l[m] # ":"
           IN Join(SubSeq(l, c + 1, Len(l)))
      ELSE ""

(* C35: every Host parsed from a line [user@]host[:port] has the port the  *)
(* line gives, 22 when it gives none, and neither an empty port nor an     *)
(* empty address.                                                          *)
C35_PortGivenOrDefault22 ==
    (resolved # NoCall /\ resolved.fn = "loadHostsFromFileWithGroups") =>
        \A n \in 1..Len(resolved.out.hwgs) :
            LET h == resolved.out.hwgs[n].host
                w == WrittenPort(LineOf(NthHostLine(n)))
            IN /\ h.Address # ""
               /\ h.Port # ""
               /\ h.Port = IF w # "" THEN w ELSE "22"

(***************************************************************************)
(* Directory trees (SpecWalk): the inventory is a directory with hidden    *)
(* entries, sub-directories and files of several extensions.               *)
(***************************************************************************)
MaxTreeFiles == 3

(* The file of a tree that is number k: one group with one host *)
TreeGroup == <<"g1", "g2", "g3", "g4", "g5", "g6", "g7">>
TreeHost == <<"n1", "n2", "n3", "n4", "n5", "n6", "n7">>
TreeFile(k) ==
    [readable |-> TRUE, lines |-> << <<"[", TreeGroup[k], "]">>, <<TreeHost[k]>> >>]
TreeNode(dir, name, k) ==
    [dir |-> dir, name |-> name, isDir |-> FALSE, file |-> TreeFile(k), k |-> k]
TreeDir(name) ==
    [dir |-> <<>>, name |-> name, isDir |-> TRUE, file |-> Nil, k |-> 0]

(* Every node a tree can have, in the lexical order of filepath.Walk *)
WalkOrder ==
    << TreeDir(<<".", "git">>),
       TreeNode(<< <<".", "git">> >>, <<"config">>, 1),
       TreeNode(<<>>, <<".", "hosts">>, 2),
       TreeNode(<<>>, <<"hosts">>, 3),
       TreeNode(<<>>, <<"hosts", ".", "INI">>, 4),
       TreeNode(<<>>, <<"notes", ".", "md">>, 5),
       TreeDir(<<"prod">>),
       TreeNode(<< <<"prod">> >>, <<".", "backup", ".", "ini">>, 6),
       TreeNode(<< <<"prod">> >>, <<"web", ".", "conf">>, 7) >>

(* The walk of the tree whose files are those numbered in ks: the files    *)
(* and the directories that hold one of them                               *)
InTree(node, ks) ==
    IF node.isDir
      THEN \E m \in 1..Len(WalkOrder) :
              /\ WalkOrder[m].k \in ks
              /\ WalkOrder[m].dir = <<node.name>>
      ELSE node.k \in ks
RECURSIVE WalkFrom(_, _)
WalkFrom(m, ks) ==
    IF m > Len(WalkOrder) THEN <<>>
    ELSE (IF InTree(WalkOrder[m], ks) THEN <<WalkOrder[m]>> ELSE <<>>)
           \o WalkFrom(m + 1, ks)
Trees(n) ==
    {[kind |-> "tree", nodes |-> WalkFrom(1, ks)] :
        ks \in {x \in SUBSET (1..7) : Cardinality(x) <= n}}

WalkInit ==
    /\ source \in Trees(MaxTreeFiles)
    /\ resolved = NoCall
    /\ earlier = NoCall
    /\ listed = NoCall
    /\ hosts = <<>>
    /\ concurrency = 0
    /\ mainpc = "idle"
    /\ spawned = 0
    /\ pc = <<>>
    /\ panicking = <<>>
    /\ outcome = <<>>
    /\ results = <<>>
    /\ semaphore = 0
    /\ wg = 0
    /\ tracker = <<>>
    /\ RunIdle
    /\ ClientIdle
    /\ PingIdle

SpecWalk == WalkInit /\ [][InvNext]_vars

(* A file of the tree that directory resolution may read: neither hidden   *)
(* nor under a hidden directory, and with an extension of the list         *)
MayBeRead(node) ==
    /\ ~node.isDir
    /\ ~HasDotPrefix(node.name)
    /\ \A k \in 1..Len(node.dir) : ~HasDotPrefix(node.dir[k])
    /\ \E e \in {"", ".ini", ".txt", ".conf", ".hosts"} :
          Join(ToLower(Ext(node.name))) = e
ReadableHosts ==
    {TreeHost[source.nodes[m].k] :
        m \in {x \in 1..Len(source.nodes) : MayBeRead(source.nodes[x])}}
ReadableGroups ==
    {TreeGroup[source.nodes[m].k] :
        m \in {x \in 1..Len(source.nodes) : MayBeRead(source.nodes[x])}}

(* C33: the hosts a directory resolves to, and the groups it lists, come   *)
(* only from files that are not hidden, do not lie under a hidden          *)
(* directory and have one of the extensions .ini, .txt, .conf, .hosts or   *)
(* none.                                                                   *)
C33_OnlyVisibleAllowedFilesRead ==
    /\ (resolved # NoCall /\ resolved.out.ok) =>
          \A m \in 1..Len(resolved.out.hosts) :
              resolved.out.hosts[m].Address \in ReadableHosts
    /\ (listed # NoCall /\ listed.out.ok) =>
          \A m \in 1..Len(listed.out.groups) :
              listed.out.groups[m] \in ReadableGroups


(***************************************************************************)
(* Properties of the resolution                                            *)
(***************************************************************************)
Called == resolved # NoCall

(* The names a group expression asks for, and whether it is a specific     *)
(* filter (non-empty, not all).                                            *)
FilterNames(g) == Elems(g) \ {",", " "}
IsSpecificFilter(g) == FilterNames(g) # {} /\ "all" \notin FilterNames(g)

(* Every host+group pair written in the files of the source, in reading    *)
(* order, before any merging.                                              *)
RECURSIVE PathPairs(_)
PathPairs(paths) ==
    IF paths = <<>> THEN <<>>
    ELSE walkPairs(Head(paths).files) \o PathPairs(Tail(paths))
SourcePairs ==
    IF source.kind \in {"file", "dir"} THEN walkPairs(source.files)
    ELSE IF source.kind = "inventory" THEN PathPairs(source.paths)
    ELSE <<>>

(* The source can be read: its file opens, or at least one inventory path  *)
(* exists.                                                                 *)
SourceReadable ==
    \/ source.kind = "dir"
    \/ source.kind = "file" /\ source.files[1].readable
    \/ source.kind = "inventory"
         /\ \E k \in 1..Len(source.paths) : source.paths[k].kind # "missing"

SameIdentity(h1, h2) == h1.Address = h2.Address /\ h1.Port = h2.Port

(* C7: in the host list returned by a successful resolution no two hosts   *)
(* share the same (address, port) pair, for a file, a directory and a      *)
(* literal comma-separated address list alike.                             *)
C7_IdentityKeysUnique ==
    (Called /\ resolved.out.ok) =>
        \A i, j \in 1..Len(resolved.out.hosts) :
            i # j => ~SameIdentity(resolved.out.hosts[i], resolved.out.hosts[j])

(* C8: a directory whose first file declares a host under [web] and whose  *)
(* second file declares it under [web2], resolved with filter all, yields  *)
(* exactly one Host, with groups <<web, web2>>.                            *)
C8_GroupsAccumulateAcrossFiles ==
    (/\ Called
     /\ resolved.group = <<"all">>
     /\ source.kind = "dir"
     /\ Len(source.files) = 2
     /\ \E h \in {<<"a">>, <<"b">>} :
           /\ source.files[1] = [readable |-> TRUE, lines |-> <<<<"[", "web", "]">>, h>>]
           /\ source.files[2] = [readable |-> TRUE, lines |-> <<<<"[", "web2", "]">>, h>>])
    => /\ resolved.out.ok
       /\ Len(resolved.out.hosts) = 1
       /\ resolved.out.hosts[1].Groups = <<"web", "web2">>

(* C9: in directory resolution with a specific filter set G, a host        *)
(* survives whenever one of its occurrences, in any file and under any     *)
(* header, is under a group in G.                                          *)
C9_SurvivesIfAnyOccurrenceMatches ==
    (Called /\ source.kind = "dir" /\ IsSpecificFilter(resolved.group)) =>
        \A k \in 1..Len(SourcePairs) :
            SourcePairs[k].group \in FilterNames(resolved.group) =>
                /\ resolved.out.ok
                /\ \E n \in 1..Len(resolved.out.hosts) :
                       SameIdentity(resolved.out.hosts[n], SourcePairs[k].host)

(* C10: with a specific filter, for a file, a directory and an inventory   *)
(* of the external config: a success is a non-empty list of hosts that     *)
(* each have a group of the filter, and when no host is under a group of   *)
(* the filter the resolution fails with an error naming the requested      *)
(* groups.                                                                 *)
C10_ZeroMatchesIsErrorNamingGroups ==
    (/\ Called
     /\ source.kind \in {"file", "dir", "inventory"}
     /\ IsSpecificFilter(resolved.group))
    => /\ resolved.out.ok =>
            /\ resolved.out.hosts # <<>>
            /\ \A n \in 1..Len(resolved.out.hosts) :
                   Elems(resolved.out.hosts[n].Groups)
                       \cap FilterNames(resolved.group) # {}
       /\ (/\ SourceReadable
           /\ \A k \in 1..Len(SourcePairs) :
                  SourcePairs[k].group \notin FilterNames(resolved.group))
          => /\ ~resolved.out.ok
             /\ resolved.out.err.arg = JoinWith(parseGroups(resolved.group), ",")

(***************************************************************************)
(* Part 3: the run controller (RunController.Execute)                      *)
(*                                                                         *)
(* SpecRun follows one call of Execute: validateRequest, loadHosts,        *)
(* applyLimitAndOffset, the executor call and the returned response.       *)
(***************************************************************************)
(* Values of --offset and --limit *)
Offsets == -1..3
Limits == -1..2

(* Values of -c and -u *)
Commands == {"", "uptime"}
Users == {"", "root"}

(* Values of Port after MergeCommonConfig ("22" when -P is not given) and  *)
(* of KeyPath                                                              *)
Ports == {"22", "2222"}
KeyPaths == {"id_rsa"}

(* Inventories of a run: a host file or a literal list *)
RunInventories(n) ==
    {[kind |-> "file", files |-> <<f>>] : f \in ReadableFiles(n)}
    \cup {[kind |-> "string", text |-> CommaList(ps)] :
              ps \in SeqsUpTo(ListParts, n) \ {<<>>}}

RunGroups == {<<>>, <<"web">>}

(* validateRequest *)
validateRequest(r) ==
    IF r.Command = "" THEN [kind |-> "noCommand", arg |-> ""]
    ELSE IF r.User = "" THEN [kind |-> "noUser", arg |-> ""]
    ELSE Nil

(* applyLimitAndOffset *)
applyLimitAndOffset(hs, offset, limit) ==
    LET total == Len(hs)
    IN IF total = 0 THEN hs
       ELSE IF offset > 0 /\ offset >= total THEN <<>>
       ELSE LET h1 == IF offset > 0 THEN SubSeq(hs, offset + 1, total) ELSE hs
            IN IF limit > 0 /\ limit < Len(h1) THEN SubSeq(h1, 1, limit)
               ELSE h1

(* NewExecutor: the loop that fills the unset fields of every host *)
NewExecutor(hs, user, keyPath, defaultPort) ==
    [hosts   |-> [i \in 1..Len(hs) |->
                    [hs[i] EXCEPT !.Port = IF @ = "" THEN defaultPort ELSE @,
                                  !.User = IF @ = "" THEN user ELSE @,
                                  !.KeyPath = IF @ = "" THEN keyPath ELSE @]],
     user    |-> user,
     keyPath |-> keyPath,
     port    |-> defaultPort]

(* createSSHClient: the arguments of ssh.NewClient for host h *)
createSSHClient(e, h) ==
    [Address |-> h.Address,
     Port    |-> IF h.Port = "" THEN e.port ELSE h.Port,
     User    |-> IF h.User = "" THEN e.user ELSE h.User,
     KeyPath |-> IF h.KeyPath = "" THEN e.keyPath ELSE h.KeyPath]

RunInit ==
    /\ req \in [Inventory : RunInventories(MaxLines2), Group : RunGroups,
                Command : Commands, User : Users,
                Port : Ports, KeyPath : KeyPaths,
                Offset : Offsets, Limit : Limits]
    /\ runpc = "validate"
    /\ runHosts = <<>>
    /\ handed = NotHanded
    /\ response = Nil
    /\ auth = Nil
    /\ source = <<>>
    /\ resolved = <<>>
    /\ earlier = <<>>
    /\ listed = <<>>
    /\ hosts = <<>>
    /\ concurrency = 0
    /\ mainpc = "idle"
    /\ spawned = 0
    /\ pc = <<>>
    /\ panicking = <<>>
    /\ outcome = <<>>
    /\ results = <<>>
    /\ semaphore = 0
    /\ wg = 0
    /\ tracker = <<>>
    /\ ClientIdle
    /\ PingIdle

(* if err := c.validateRequest(mergedReq); err != nil { return nil, err } *)
RunValidate ==
    /\ runpc = "validate"
    /\ IF validateRequest(req) # Nil
         THEN /\ runpc' = "returned"
              /\ response' = [err |-> validateRequest(req), Results |-> <<>>]
         ELSE /\ runpc' = "load"
              /\ UNCHANGED response
    /\ UNCHANGED <<req, runHosts, handed, auth, execVars, invVars, clientVars, pingVars>>

(* hosts, err := c.loadHosts(mergedReq); if err != nil { return nil, err } *)
RunLoadHosts ==
    /\ runpc = "load"
    /\ \E r \in {LoadHosts(req.Inventory, req.Group)} :
          IF ~r.ok
            THEN /\ runpc' = "returned"
                 /\ response' = [err |-> r.err, Results |-> <<>>]
                 /\ UNCHANGED runHosts
            ELSE /\ runpc' = "slice"
                 /\ runHosts' = r.hosts
                 /\ UNCHANGED response
    /\ UNCHANGED <<req, handed, auth, execVars, invVars, clientVars, pingVars>>

(* hosts = c.applyLimitAndOffset(hosts, mergedReq.Offset, mergedReq.Limit) *)
RunApplyLimitAndOffset ==
    /\ runpc = "slice"
    /\ runHosts' = applyLimitAndOffset(runHosts, req.Offset, req.Limit)
    /\ runpc' = "dispatch"
    /\ UNCHANGED <<req, handed, response, auth, execVars, invVars, clientVars, pingVars>>

(* port := mergedReq.Port, "22" when empty; executor.NewExecutor(hosts,    *)
(* ...) and exec.ExecuteCommandWithBecome: one client and one result per   *)
(* host, each with an exit code of its own; the loop over the results and  *)
(* the return of the response.                                             *)
RunExecute ==
    /\ runpc = "dispatch"
    /\ \E e \in {NewExecutor(runHosts, req.User, req.KeyPath,
                              IF req.Port = "" THEN "22" ELSE req.Port)} :
          handed' = [given   |-> TRUE,
                     hosts   |-> e.hosts,
                     clients |-> [i \in 1..Len(e.hosts) |->
                                     createSSHClient(e, e.hosts[i])]]
    /\ \E codes \in [1..Len(runHosts) -> {0, 1}] :
          response' = [err |-> Nil,
                       Results |-> [i \in 1..Len(runHosts) |->
                                       [Host |-> runHosts[i].Address,
                                        ExitCode |-> codes[i]]]]
    /\ runpc' = "returned"
    /\ UNCHANGED <<req, runHosts, auth, execVars, invVars, clientVars, pingVars>>

RunNext ==
    \/ RunValidate
    \/ RunLoadHosts
    \/ RunApplyLimitAndOffset
    \/ RunExecute

SpecRun == RunInit /\ [][RunNext]_vars

(* C11: whenever Execute returns without an error the executor was given a *)
(* non-empty host list, and an empty selection (an empty inventory or one  *)
(* emptied by offset/limit) is returned as an error with no host handed to *)
(* the executor.                                                           *)
C11_NonEmptyOnSuccess ==
    /\ (runpc = "returned" /\ response.err = Nil) =>
           (handed.given /\ Len(handed.hosts) > 0)
    /\ handed.given => Len(handed.hosts) > 0

(* The host entries written in the inventory of the run, trimmed: the      *)
(* lines of the file that are neither blank, comment nor section header,   *)
(* or the non-empty parts of the literal list.                             *)
HostEntries(inv) ==
    IF inv.kind = "file"
      THEN {TrimSpace(inv.files[1].lines[k]) : k \in
               {n \in 1..Len(inv.files[1].lines) :
                   LET line == TrimSpace(inv.files[1].lines[n])
                   IN ~IsBlankOrComment(line) /\ ~IsSection(line)}}
      ELSE {TrimSpace(Split(inv.text, ",")[k]) :
               k \in 1..Len(Split(inv.text, ","))} \ {<<>>}

(* How an entry [user@]host[:port] is to be contacted under the two-level  *)
(* override: what the entry gives, else the request-level value.           *)
ExpectedContact(entry, r) ==
    LET at   == Index(entry, "@")
        rest == IF at # 0 THEN SubSeq(entry, at + 1, Len(entry)) ELSE entry
        col  == LastIndex(rest, ":")
    IN [Address |-> IF col # 0 THEN Join(SubSeq(rest, 1, col - 1)) ELSE Join(rest),
        Port    |-> IF col # 0 THEN Join(SubSeq(rest, col + 1, Len(rest)))
                               ELSE r.Port,
        User    |-> IF at # 0 THEN Join(SubSeq(entry, 1, at - 1)) ELSE r.User,
        KeyPath |-> r.KeyPath]

(* C22: per-host > request default: every host of the run is contacted the *)
(* way one of the inventory's entries asks for - on the entry's port, or   *)
(* on the request-level port (-P) when the entry gives none, and as the    *)
(* entry's user, or as the request-level user when the entry gives none.   *)
C22_UnsetFieldsFallBack ==
    handed.given =>
        \A k \in 1..Len(handed.clients) :
            handed.clients[k] \in
                {ExpectedContact(e, req) : e \in HostEntries(req.Inventory)}

(***************************************************************************)
(* Client construction (SpecAuth): Executor.createSSHClient calls          *)
(* ssh.NewClient with the key path of the host, or the executor's, and the *)
(* executor's password; NewClientWithTimeout picks the one authentication  *)
(* method of the client.                                                   *)
(***************************************************************************)
DefaultKeyPath == "~/.ssh/id_rsa"
KeyFiles == {DefaultKeyPath, "host.pem", "run.pem"}
Passwords == {"", "secret"}

(* "加载 SSH key 失败" and "未提供认证方式（key 或 password）" *)
ErrKey == [kind |-> "loadKey", arg |-> ""]
ErrNoAuth == [kind |-> "noAuth", arg |-> ""]

(* loadPrivateKey(keyPath) with the set of files that can be read and      *)
(* parsed as a private key                                                 *)
loadPrivateKey(keyPath, usable) ==
    IF keyPath \in usable THEN [key |-> keyPath, err |-> Nil]
    ELSE [key |-> Nil, err |-> ErrKey]

(* NewClientWithTimeout: the authentication method of the client, or the   *)
(* error                                                                   *)
NewClientWithTimeout(keyPath, password, usable) ==
    IF keyPath # ""
      THEN IF loadPrivateKey(keyPath, usable).err # Nil
             THEN [method |-> "none", with |-> "", err |-> ErrKey]
             ELSE [method |-> "key", with |-> keyPath, err |-> Nil]
    ELSE IF password # ""
      THEN [method |-> "password", with |-> password, err |-> Nil]
    ELSE IF loadPrivateKey(DefaultKeyPath, usable).err = Nil
      THEN [method |-> "key", with |-> DefaultKeyPath, err |-> Nil]
    ELSE [method |-> "none", with |-> "", err |-> ErrNoAuth]

AuthInit ==
    /\ auth \in [usable : SUBSET KeyFiles,
                 hostKeyPath : {"", "host.pem"},
                 keyPath : {"", "run.pem"},
                 password : Passwords,
                 out : {Nil}]
    /\ req = Nil
    /\ runpc = "idle"
    /\ runHosts = <<>>
    /\ handed = NotHanded
    /\ response = Nil
    /\ ClientIdle
    /\ PingIdle
    /\ source = <<>>
    /\ resolved = <<>>
    /\ earlier = <<>>
    /\ listed = <<>>
    /\ hosts = <<>>
    /\ concurrency = 0
    /\ mainpc = "idle"
    /\ spawned = 0
    /\ pc = <<>>
    /\ panicking = <<>>
    /\ outcome = <<>>
    /\ results = <<>>
    /\ semaphore = 0
    /\ wg = 0
    /\ tracker = <<>>

(* e.createSSHClient(h) for a host of an executor made by NewExecutor *)
CreateClient ==
    /\ auth.out = Nil
    /\ \E e \in {NewExecutor(<<[Address |-> "h1", Port |-> "", User |-> "",
                                 KeyPath |-> auth.hostKeyPath]>>,
                              "root", auth.keyPath, "22")} :
          auth' = [auth EXCEPT !.out =
                     NewClientWithTimeout(
                         createSSHClient(e, e.hosts[1]).KeyPath,
                         auth.password, auth.usable)]
    /\ UNCHANGED <<req, runpc, runHosts, handed, response, execVars, invVars,
                   clientVars, pingVars>>

AuthNext == CreateClient

SpecAuth == AuthInit /\ [][AuthNext]_vars

(* The key path ssh.NewClient is given *)
GivenKeyPath ==
    IF auth.hostKeyPath # "" THEN auth.hostKeyPath ELSE auth.keyPath
SomeCredentialUsable ==
    \/ GivenKeyPath # "" /\ GivenKeyPath \in auth.usable
    \/ auth.password # ""
    \/ DefaultKeyPath \in auth.usable

(* C31: the construction of a client fails, with the error that says no    *)
(* authentication method was given, exactly when none of the explicit key, *)
(* the password and the default key ~/.ssh/id_rsa is usable; it succeeds   *)
(* whenever one of them is.                                                *)
C31_FailsIffNoCredentialUsable ==
    (auth # Nil /\ auth.out # Nil) =>
        /\ (auth.out.err # Nil) <=> ~SomeCredentialUsable
        /\ auth.out.err # Nil => auth.out.err = ErrNoAuth

(***************************************************************************)
(* Part 4: the SSH client (ssh.Client): UploadFile, ExecuteWithBecome,     *)
(* ExecuteScriptWithBecome                                                 *)
(*                                                                         *)
(* SpecUpload follows up to MaxCalls consecutive UploadFile calls of one    *)
(* Client against one remote host, SpecScript up to MaxScriptCalls calls   *)
(* of ExecuteWithBecome or ExecuteScriptWithBecome.  Every step that talks *)
(* to the host can fail.                                                   *)
(* time.Now() is read once per call (getBackupPath, tempFileName), so the  *)
(* clock advances between calls.                                           *)
(***************************************************************************)
MaxCalls == 2
MaxScriptCalls == 1
MaxClock == 2

(* The remote command makes at most MaxWrites writes of one chunk each; the *)
(* channel of a session buffers at most PipeCap unread chunks, stdout and  *)
(* stderr together                                                         *)
MaxWrites == 2
PipeCap == 1

ClientHost == "h1"
Dest == "/srv/app.conf"

(* time.Now().Format("20060102-150405") for the seconds of the model *)
Stamp == <<"20260101-000000", "20260101-000001", "20260101-000002",
           "20260101-000003">>

(* Local files: path -> content; a path outside the domain cannot be opened *)
LocalFiles == [p \in {"app.conf", "other.conf", "run.sh"} |->
                  CASE p = "app.conf" -> "c1"
                    [] p = "other.conf" -> "c2"
                    [] p = "run.sh" -> "script"]
LocalPaths == DOMAIN LocalFiles \cup {"missing.conf"}

(* Remote files as a function from the paths that exist to their content *)
Put(fs, path, data) ==
    [q \in DOMAIN fs \cup {path} |-> IF q = path THEN data ELSE fs[q]]
Remove(fs, path) == [q \in DOMAIN fs \ {path} |-> fs[q]]
Exists(fs, path) == path \in DOMAIN fs

ErrOf(kind) == [kind |-> kind, arg |-> ""]

(* Client.createErrorResult *)
Client_createErrorResult(command, err, message) ==
    [Host |-> ClientHost, Command |-> command, Stdout |-> "",
     Stderr |-> message \o ": " \o err.kind, ExitCode |-> -1, Error |-> err]

(* getBackupPath *)
getBackupPath(remotePath, now) == remotePath \o ".backup." \o Stamp[now]

(* normalizeFileMode *)
normalizeFileMode(mode) == IF mode = "" THEN "0644" ELSE mode

(* fmt.Sprintf("/tmp/gossh_script_%d_%d", time.Now().UnixNano(), os.Getpid()) *)
tempFileName(now) == "/tmp/gossh_script_" \o Stamp[now] \o "_4242"

(* buildCommand *)
buildCommand_ignoresUser(command, become, becomeUser) ==
    IF ~become THEN command ELSE "sudo " \o command
buildCommand(command, become, becomeUser) ==
    IF ~become THEN command
    ELSE IF becomeUser # "" /\ becomeUser # "root"
      THEN "sudo -u " \o becomeUser \o " " \o command
    ELSE "sudo " \o command

UploadArgs ==
    [localPath : LocalPaths \ {"run.sh"}, remotePath : {Dest}, mode : {""},
     backup : BOOLEAN, force : BOOLEAN]

(* A connection, session, SCP client or local file of a call: the method   *)
(* that opened it (u: UploadFile, e: ExecuteWithBecome, s:                 *)
(* ExecuteScriptWithBecome) and what it is                                 *)
Resource(frame, name) == [frame |-> frame, name |-> name]

NewLoc(fs) ==
    [uargs |-> Nil, command |-> "", fileExists |-> FALSE, backupPath |-> "",
     mode |-> "", temp |-> "", conn |-> FALSE, upl |-> Nil, exe |-> Nil,
     waitErr |-> "pending", cleanup |-> "none", before |-> fs,
     log |-> <<>>, fault |-> FALSE,
     open |-> {}, opened |-> {}, defers |-> [u |-> <<>>, e |-> <<>>, s |-> <<>>],
     program |-> <<>>, written |-> 0, outBuf |-> 0, errBuf |-> 0,
     eof |-> FALSE, output |-> "", errOutput |-> ""]

(* x, err := open(...) succeeded; defer x.Close() is the next statement *)
OpenNoDefer(l, frame, name) ==
    [l EXCEPT !.open = @ \cup {Resource(frame, name)},
              !.opened = @ \cup {Resource(frame, name)}]
OpenDeferClose(l, frame, name) ==
    [l EXCEPT !.open = @ \cup {Resource(frame, name)},
              !.opened = @ \cup {Resource(frame, name)},
              !.defers[frame] = <<Resource(frame, name)>> \o @]

(* A helper (checkFileExists, backupRemoteFile, cleanupTempFile) opened a  *)
(* session, deferred its Close and has returned                            *)
SessionInHelper(l, frame, name) ==
    [l EXCEPT !.opened = @ \cup {Resource(frame, name)}]

(* The method of the frame returns: its deferred Close calls run, last     *)
(* registered first                                                        *)
RunDefers(l, frame) ==
    [l EXCEPT !.open = @ \ Elems(l.defers[frame]),
              !.defers[frame] = <<>>]

(* What is kept of a call when the next one starts *)
Summary == [op |-> op, ret |-> ret, before |-> loc.before, fault |-> loc.fault]

ClientInit ==
    /\ remote \in {<<>>, Put(<<>>, Dest, "old")}
    /\ clock = 1
    /\ op = NoOp
    /\ cpc = "idle"
    /\ loc = Nil
    /\ ret = Nil
    /\ prev = [n |-> 0, last |-> Nil]
    /\ RunIdle
    /\ PingIdle
    /\ source = <<>>
    /\ resolved = <<>>
    /\ earlier = <<>>
    /\ listed = <<>>
    /\ hosts = <<>>
    /\ concurrency = 0
    /\ mainpc = "idle"
    /\ spawned = 0
    /\ pc = <<>>
    /\ panicking = <<>>
    /\ outcome = <<>>
    /\ results = <<>>
    /\ semaphore = 0
    /\ wg = 0
    /\ tracker = <<>>

(* A second passes between two calls *)
Tick ==
    /\ cpc = "idle"
    /\ clock < MaxClock
    /\ clock' = clock + 1
    /\ UNCHANGED <<remote, op, cpc, loc, ret, prev, execVars, invVars, runVars, pingVars>>

(* prev counts the calls that returned and holds the summary of the last   *)
(* one                                                                     *)
Remember == IF op = NoOp THEN prev ELSE [n |-> prev.n + 1, last |-> Summary]

(* c.UploadFile(localPath, remotePath, mode, backup, force) is called *)
CallUploadFile ==
    /\ cpc = "idle"
    /\ Remember.n < MaxCalls
    /\ \E a \in UploadArgs :
          /\ op' = [kind |-> "upload", args |-> a]
          /\ loc' = [NewLoc(remote) EXCEPT
                        !.uargs = a,
                        !.command = "upload " \o a.localPath \o " -> " \o a.remotePath]
    /\ prev' = Remember
    /\ cpc' = "u_open"
    /\ ret' = Nil
    /\ UNCHANGED <<remote, clock, execVars, invVars, runVars, pingVars>>

(* UploadFile returns (r, e): to its caller when it was called directly,   *)
(* into ExecuteScriptWithBecome otherwise                                  *)
UploadRet(r, e, l, fs) ==
    /\ remote' = fs
    /\ IF op.kind = "upload"
         THEN /\ cpc' = "idle"
              /\ ret' = [result |-> r, err |-> e]
              /\ loc' = RunDefers(l, "u")
         ELSE /\ cpc' = "s_uploaded"
              /\ loc' = [RunDefers(l, "u") EXCEPT !.upl = [result |-> r, err |-> e]]
              /\ UNCHANGED ret
    /\ UNCHANGED <<clock, op, prev, execVars, invVars, runVars, pingVars>>

UploadFail(kind, message, l, fs) ==
    UploadRet(Client_createErrorResult(l.command, ErrOf(kind), message),
              ErrOf(kind), [l EXCEPT !.fault = TRUE], fs)

UploadGoto(p, l, fs) ==
    /\ cpc' = p
    /\ loc' = l
    /\ remote' = fs
    /\ UNCHANGED <<clock, op, ret, prev, execVars, invVars, runVars, pingVars>>

(* openLocalFile; defer localFile.Close() *)
UploadOpenLocal ==
    /\ cpc = "u_open"
    /\ IF loc.uargs.localPath \in DOMAIN LocalFiles
         THEN UploadGoto("u_connect", OpenDeferClose(loc, "u", "localFile"), remote)
         ELSE UploadFail("open", "open local file failed", loc, remote)

(* createSSHConnection; defer conn.Close() *)
UploadConnect_noDefer ==
    /\ cpc = "u_connect"
    /\ \/ UploadGoto("u_check", OpenNoDefer(loc, "u", "conn"), remote)
       \/ UploadFail("dial", "connect failed", loc, remote)
UploadConnect ==
    /\ cpc = "u_connect"
    /\ \/ UploadGoto("u_check", OpenDeferClose(loc, "u", "conn"), remote)
       \/ UploadFail("dial", "connect failed", loc, remote)

(* checkFileExists: test -f remotePath in a session of its own; it fails   *)
(* when the session cannot be opened or when the command cannot be run     *)
UploadCheckFileExists ==
    /\ cpc = "u_check"
    /\ \/ UploadGoto("u_decide",
                     [SessionInHelper(loc, "u", "checkSession") EXCEPT
                         !.fileExists = Exists(remote, loc.uargs.remotePath)],
                     remote)
       \/ UploadFail("check", "check remote file failed", loc, remote)
       \/ UploadFail("check", "check remote file failed",
                     SessionInHelper(loc, "u", "checkSession"), remote)

(* The skip result of UploadFile *)
SkipResult(l) ==
    [Host |-> ClientHost, Command |-> l.command, Stdout |-> "",
     Stderr |-> "file exists, skipped: " \o l.uargs.remotePath
                   \o " (or use --force / --backup)",
     ExitCode |-> 1, Error |-> ErrOf("skipped")]

(* if fileExists { if !force && !backup { skip }; if backup { backup } } *)
UploadDecide_forceWins ==
    /\ cpc = "u_decide"
    /\ IF loc.fileExists /\ ~loc.uargs.force /\ ~loc.uargs.backup
         THEN UploadRet(SkipResult(loc), Nil, loc, remote)
       ELSE IF loc.fileExists /\ loc.uargs.backup /\ ~loc.uargs.force
         THEN UploadGoto("u_backup", loc, remote)
       ELSE UploadGoto("u_scp", loc, remote)
UploadDecide_noSkip ==
    /\ cpc = "u_decide"
    /\ IF loc.fileExists /\ loc.uargs.backup
         THEN UploadGoto("u_backup", loc, remote)
       ELSE UploadGoto("u_scp", loc, remote)
UploadDecide ==
    /\ cpc = "u_decide"
    /\ IF loc.fileExists /\ ~loc.uargs.force /\ ~loc.uargs.backup
         THEN UploadRet(SkipResult(loc), Nil, loc, remote)
       ELSE IF loc.fileExists /\ loc.uargs.backup
         THEN UploadGoto("u_backup", loc, remote)
       ELSE UploadGoto("u_scp", loc, remote)

(* backupRemoteFile: cp remotePath backupPath in a session of its own.  A  *)
(* failing cp may have created part of the copy.                           *)
UploadBackup_afterwards ==
    /\ cpc = "u_backup"
    /\ UploadGoto("u_scp", loc, remote)
UploadBackup ==
    /\ cpc = "u_backup"
    /\ LET bp == getBackupPath(loc.uargs.remotePath, clock)
       IN \/ UploadGoto("u_scp",
                 [SessionInHelper(loc, "u", "backupSession") EXCEPT
                             !.backupPath = bp,
                             !.log = Append(@, "cp"),
                             !.command = "upload " \o loc.uargs.localPath \o " -> "
                                 \o loc.uargs.remotePath \o " (backup: " \o bp \o ")"],
                 Put(remote, bp, remote[loc.uargs.remotePath]))
          \/ UploadFail("backup", "backup remote file failed", loc, remote)
          \/ UploadFail("backup", "backup remote file failed",
                        SessionInHelper(loc, "u", "backupSession"), remote)
          \/ UploadFail("backup", "backup remote file failed",
                        SessionInHelper(loc, "u", "backupSession"),
                        Put(remote, bp, "partial"))

(* createSCPClient; defer scpClient.Close() *)
UploadCreateSCPClient ==
    /\ cpc = "u_scp"
    /\ \/ UploadGoto("u_copy", OpenDeferClose(loc, "u", "scpClient"), remote)
       \/ UploadFail("scp", "create SCP client failed", loc, remote)

(* copyFile, first half: the transfer starts and the destination is        *)
(* truncated and partly written, or the transfer fails before that         *)
UploadCopyStart ==
    /\ cpc = "u_copy"
    /\ \/ UploadGoto("u_copy2",
                     [loc EXCEPT !.mode = normalizeFileMode(loc.uargs.mode),
                                 !.log = Append(@, "write")],
                     Put(remote, loc.uargs.remotePath, "partial"))
       \/ UploadFail("copy", "upload failed", loc, remote)

(* copyFile, second half, and the success result *)
UploadCopyFinish ==
    /\ cpc = "u_copy2"
    /\ \/ UploadRet(
             [Host |-> ClientHost, Command |-> loc.command,
              Stdout |->
                 IF loc.fileExists /\ loc.uargs.backup /\ loc.backupPath # ""
                   THEN "uploaded to " \o loc.uargs.remotePath
                            \o " (backup: " \o loc.backupPath \o ")"
                 ELSE IF loc.fileExists /\ loc.uargs.force /\ ~loc.uargs.backup
                   THEN "overwritten " \o loc.uargs.remotePath
                 ELSE "uploaded to " \o loc.uargs.remotePath,
              Stderr |-> "", ExitCode |-> 0, Error |-> Nil],
             Nil, loc,
             Put(remote, loc.uargs.remotePath, LocalFiles[loc.uargs.localPath]))
       \/ UploadFail("copy", "upload failed", loc, remote)

UploadNext ==
    \/ Tick
    \/ CallUploadFile
    \/ UploadOpenLocal
    \/ UploadConnect
    \/ UploadCheckFileExists
    \/ UploadDecide
    \/ UploadBackup
    \/ UploadCreateSCPClient
    \/ UploadCopyStart
    \/ UploadCopyFinish

SpecUpload == ClientInit /\ [][UploadNext]_vars

(***************************************************************************)
(* Properties of UploadFile                                                *)
(***************************************************************************)
(* An UploadFile call has returned to its caller *)
UploadReturned == cpc = "idle" /\ op.kind = "upload"

(* The destination existed when the current call started *)
ExistedBefore == Exists(loc.before, Dest)

(* The remote actions the decision table prescribes *)
TableActions(exists, force, backup) ==
    IF ~exists THEN <<"write">>
    ELSE IF ~force /\ ~backup THEN <<>>
    ELSE IF backup THEN <<"cp", "write">>
    ELSE <<"write">>

IsPrefix(a, b) == Len(a) <= Len(b) /\ a = SubSeq(b, 1, Len(a))

BackupPaths == {Dest \o ".backup." \o Stamp[t] : t \in 1..MaxClock}

(* C12: the same file uploaded twice with force=false and backup=false,    *)
(* the destination absent before the first call and no step failing: the   *)
(* first call returns success, the second returns the skip result          *)
(* (exitCode 1, stderr naming the destination path) and changes nothing on *)
(* the remote host, neither a write nor a backup.                          *)
C12_SecondUploadSkips ==
    (/\ UploadReturned
     /\ prev.n >= 1
     /\ prev.last.op = op
     /\ ~op.args.force /\ ~op.args.backup
     /\ ~Exists(prev.last.before, Dest)
     /\ ~prev.last.fault /\ ~loc.fault) =>
        /\ prev.last.ret.err = Nil
        /\ prev.last.ret.result.ExitCode = 0
        /\ prev.last.ret.result.Error = Nil
        /\ ret.result.ExitCode = 1
        /\ ret.result.Stderr =
              "file exists, skipped: " \o Dest \o " (or use --force / --backup)"
        /\ loc.log = <<>>
        /\ remote = loc.before
        /\ remote[Dest] = LocalFiles[op.args.localPath]

C12_Witness ==
    /\ UploadReturned
    /\ prev.n >= 1
    /\ prev.last.op = op
    /\ ~op.args.force /\ ~op.args.backup
    /\ ~Exists(prev.last.before, Dest)
    /\ ~prev.last.fault /\ ~loc.fault
    /\ ret.result.ExitCode = 1

(* C13: for every combination of (destination exists, force, backup) a     *)
(* call in which no step fails performs exactly the remote actions of the  *)
(* decision table, and a call in which a step fails performed a prefix of  *)
(* them: absent -> write; exists, neither flag -> nothing (skip, exit 1);  *)
(* exists, backup -> cp then write; exists, force only -> write.           *)
C13_DecisionTable ==
    UploadReturned =>
        LET want == TableActions(ExistedBefore, op.args.force, op.args.backup)
        IN /\ IsPrefix(loc.log, want)
           /\ ~loc.fault => loc.log = want
           /\ ~loc.fault =>
                 ret.result.ExitCode =
                    (IF ExistedBefore /\ ~op.args.force /\ ~op.args.backup
                       THEN 1 ELSE 0)

C13_Witness ==
    /\ UploadReturned
    /\ ExistedBefore /\ op.args.force /\ op.args.backup
    /\ ~loc.fault
    /\ loc.log = <<"cp", "write">>

(* C14: in an upload with backup=true onto an existing destination the     *)
(* old content is at remotePath.backup.<timestamp> before any part of the  *)
(* new content is written; a successful call ends with the backup holding  *)
(* the old content and the destination the new content; a failed backup    *)
(* ends the call with a failure result and the destination untouched.      *)
C14_BackupBeforeWrite ==
    (op.kind = "upload" /\ op.args.backup /\ ExistedBefore) =>
        /\ (\E k \in 1..Len(loc.log) : loc.log[k] = "write")
              \/ remote[Dest] # loc.before[Dest]
           => /\ loc.backupPath \in BackupPaths
              /\ Exists(remote, loc.backupPath)
              /\ remote[loc.backupPath] = loc.before[Dest]
        /\ (cpc = "idle" /\ ret.result.ExitCode = 0) =>
              /\ remote[loc.backupPath] = loc.before[Dest]
              /\ remote[Dest] = LocalFiles[op.args.localPath]
        /\ (cpc = "idle" /\ ret.err # Nil /\ ret.err.kind = "backup") =>
              /\ ret.result.ExitCode = -1
              /\ ret.result.Error # Nil
              /\ remote[Dest] = loc.before[Dest]
              /\ \A k \in 1..Len(loc.log) : loc.log[k] # "write"

C14_Witness ==
    /\ UploadReturned
    /\ op.args.backup /\ ExistedBefore
    /\ ret.result.ExitCode = 0
    /\ remote[loc.backupPath] = "old"
    /\ remote[Dest] = "c1"

(***************************************************************************)
(* ExecuteWithBecome and ExecuteScriptWithBecome (SpecScript)              *)
(***************************************************************************)
ExecArgs ==
    [command : {"uptime"}, become : BOOLEAN, becomeUser : {"", "app", "root"}]
ScriptArgs ==
    [scriptPath : {"run.sh", "missing.conf"}, become : BOOLEAN,
     becomeUser : {"app"}, executor : {"", "sh"}]

(* What session.Wait() can report: nil, an *ssh.ExitError carrying the     *)
(* non-zero exit status, or any other error (no exit status, connection    *)
(* lost)                                                                   *)
WaitOutcomes ==
    {[kind |-> "none", status |-> 0], [kind |-> "other", status |-> 0]}
      \cup {[kind |-> "exit", status |-> n] : n \in {1, 2}}

(* waitForCommand *)
waitForCommand(w) == IF w.kind = "exit" THEN w.status ELSE 0

CleanupWarning == "\nwarning: cleaning up the temp file failed: session"

(* The writes a remote command makes before it exits, in order: each one  *)
(* a chunk to its stdout ("out") or to its stderr ("err")                  *)
Programs(n) == UNION {[1..k -> {"out", "err"}] : k \in 0..n}

(* A command line that makes the writes of program p, and the writes a     *)
(* command line makes: uptime and the scripts print one chunk on stdout    *)
RECURSIVE Letters(_)
Letters(p) ==
    IF p = <<>> THEN ""
    ELSE (IF Head(p) = "out" THEN "o" ELSE "e") \o Letters(Tail(p))
CommandOf(p) == "emit " \o Letters(p)
ProgramOf(command) ==
    IF \E p \in Programs(MaxWrites) : CommandOf(p) = command
      THEN CHOOSE p \in Programs(MaxWrites) : CommandOf(p) = command
      ELSE <<"out">>
EmitArgs ==
    [command : {CommandOf(p) : p \in Programs(MaxWrites)}, become : {FALSE},
     becomeUser : {""}]

(* c.ExecuteWithBecome(command, become, becomeUser) is called *)
CallExecute(args) ==
    /\ cpc = "idle"
    /\ Remember.n < MaxScriptCalls
    /\ \E a \in args :
          /\ op' = [kind |-> "execute", args |-> a]
          /\ loc' = [NewLoc(remote) EXCEPT !.command = a.command]
    /\ prev' = Remember
    /\ cpc' = "e_connect"
    /\ ret' = Nil
    /\ UNCHANGED <<remote, clock, execVars, invVars, runVars, pingVars>>
CallExecuteWithBecome == CallExecute(ExecArgs)
CallExecuteEmitting == CallExecute(EmitArgs)

(* c.ExecuteScriptWithBecome(scriptPath, become, becomeUser, executor) is  *)
(* called: the temp name is chosen and UploadFile(scriptPath, temp,        *)
(* "0755", false, true) is entered                                         *)
CallExecuteScriptWithBecome ==
    /\ cpc = "idle"
    /\ Remember.n < MaxScriptCalls
    /\ \E a \in ScriptArgs :
          /\ op' = [kind |-> "script", args |-> a]
          /\ loc' = [NewLoc(remote) EXCEPT
                        !.temp = tempFileName(clock),
                        !.uargs = [localPath |-> a.scriptPath,
                                   remotePath |-> tempFileName(clock),
                                   mode |-> "0755", backup |-> FALSE,
                                   force |-> TRUE],
                        !.command = "upload " \o a.scriptPath \o " -> "
                                       \o tempFileName(clock)]
    /\ prev' = Remember
    /\ cpc' = "u_open"
    /\ ret' = Nil
    /\ UNCHANGED <<remote, clock, execVars, invVars, runVars, pingVars>>

ClientGoto(p, l) ==
    /\ cpc' = p
    /\ loc' = l
    /\ UNCHANGED <<remote, clock, op, ret, prev, execVars, invVars, runVars, pingVars>>

(* The method the caller invoked returns (r, e); the deferred conn.Close() *)
(* of ExecuteScriptWithBecome runs                                         *)
ClientReturn(r, e, l, fs) ==
    /\ cpc' = "idle"
    /\ ret' = [result |-> r, err |-> e]
    /\ loc' = RunDefers(l, "s")
    /\ remote' = fs
    /\ UNCHANGED <<clock, op, prev, execVars, invVars, runVars, pingVars>>

(* _, err := c.UploadFile(...); if err != nil { return &Result{...}, err } *)
ScriptUploaded ==
    /\ cpc = "s_uploaded"
    /\ IF loc.upl.err # Nil
         THEN ClientReturn(
                 [Host |-> ClientHost, Command |-> op.args.scriptPath,
                  Stdout |-> "",
                  Stderr |-> "upload script failed: " \o loc.upl.err.kind,
                  ExitCode |-> -1, Error |-> loc.upl.err],
                 loc.upl.err, loc, remote)
         ELSE ClientGoto("s_dial", loc)

(* conn, err := ssh.Dial(...): the connection kept for the cleanup, with   *)
(* its Close deferred; on an error conn = nil and the script is run all    *)
(* the same                                                                *)
ScriptDialCleanup ==
    /\ cpc = "s_dial"
    /\ \E ok \in BOOLEAN :
          ClientGoto("e_connect",
              [(IF ok THEN OpenDeferClose(loc, "s", "conn") ELSE loc) EXCEPT
                          !.conn = ok,
                          !.command = (IF op.args.executor = "" THEN "bash"
                                       ELSE op.args.executor)
                                         \o " " \o loc.temp])

(* ExecuteWithBecome returns (r, e); its deferred session.Close() and      *)
(* conn.Close() run                                                        *)
ExecRet(r, e, l) ==
    IF op.kind = "execute"
      THEN ClientReturn(r, e, RunDefers(l, "e"), remote)
      ELSE ClientGoto("s_after",
               [RunDefers(l, "e") EXCEPT !.exe = [result |-> r, err |-> e]])

(* createSSHConnection; defer conn.Close() *)
ExecConnect ==
    /\ cpc = "e_connect"
    /\ \/ ClientGoto("e_session", OpenDeferClose(loc, "e", "conn"))
       \/ ExecRet(Nil, ErrOf("dial"), [loc EXCEPT !.fault = TRUE])

(* createSession; defer session.Close(); setupPipes,                       *)
(* session.Start(finalCommand): the remote command starts                  *)
ExecStart ==
    /\ cpc = "e_session"
    /\ \/ ClientGoto("e_readout",
                [OpenDeferClose(loc, "e", "session") EXCEPT
                    !.program = ProgramOf(loc.command),
                    !.log = Append(@, buildCommand(loc.command, op.args.become,
                                                   op.args.becomeUser))])
       \/ ExecRet(Nil, ErrOf("session"), [loc EXCEPT !.fault = TRUE])
       \/ \E k \in {"pipes", "start"} :
             ExecRet(Nil, ErrOf(k),
                     [OpenDeferClose(loc, "e", "session") EXCEPT !.fault = TRUE])

CommandRunning == cpc \in {"e_readout", "e_readerr"} /\ ~loc.eof

(* The remote command makes its next write; it blocks while the channel    *)
(* has no room for the chunk                                               *)
RemoteWrite ==
    /\ CommandRunning
    /\ loc.written < Len(loc.program)
    /\ loc.outBuf + loc.errBuf < PipeCap
    /\ ClientGoto(cpc,
          IF loc.program[loc.written + 1] = "out"
            THEN [loc EXCEPT !.written = @ + 1, !.outBuf = @ + 1]
            ELSE [loc EXCEPT !.written = @ + 1, !.errBuf = @ + 1])

(* The remote command has made all its writes and exits: both pipes        *)
(* report EOF once their buffered chunks are read                          *)
RemoteExit ==
    /\ CommandRunning
    /\ loc.written = Len(loc.program)
    /\ ClientGoto(cpc, [loc EXCEPT !.eof = TRUE])

(* output, _ := io.ReadAll(stdout): reads chunk after chunk until EOF and  *)
(* blocks while stdout has neither                                         *)
ExecReadStdout ==
    /\ cpc = "e_readout"
    /\ \/ /\ loc.outBuf > 0
          /\ ClientGoto("e_readout",
                [loc EXCEPT !.outBuf = @ - 1, !.output = @ \o "o"])
       \/ /\ loc.outBuf = 0 /\ loc.eof
          /\ ClientGoto("e_readerr", loc)

(* errOutput, _ := io.ReadAll(stderr), entered when stdout is at EOF *)
ExecReadStderr ==
    /\ cpc = "e_readerr"
    /\ \/ /\ loc.errBuf > 0
          /\ ClientGoto("e_readerr",
                [loc EXCEPT !.errBuf = @ - 1, !.errOutput = @ \o "e"])
       \/ /\ loc.errBuf = 0 /\ loc.eof
          /\ ClientGoto("e_wait", loc)

(* waitForCommand and the Result.  Its Error field is the err variable of  *)
(* setupPipes, which is nil at this point.                                 *)
ExecWait ==
    /\ cpc = "e_wait"
    /\ \E w \in WaitOutcomes :
          ExecRet([Host |-> ClientHost, Command |-> loc.command,
                   Stdout |-> loc.output, Stderr |-> loc.errOutput,
                   ExitCode |-> waitForCommand(w), Error |-> Nil],
                  Nil, [loc EXCEPT !.waitErr = w.kind])

(* After ExecuteWithBecome: the cleanup is called when conn != nil *)
ScriptAfterExecute ==
    /\ cpc = "s_after"
    /\ IF loc.conn THEN ClientGoto("s_cleanup", loc)
       ELSE ClientReturn(loc.exe.result, loc.exe.err, loc, remote)

(* The Result of a script whose execution returned one *)
ScriptResult_flipped(l, cleanup) ==
    IF cleanup = "sessionErr"
      THEN [l.exe.result EXCEPT !.ExitCode = -1, !.Error = ErrOf("cleanup")]
      ELSE l.exe.result
ScriptResult(l, cleanup) ==
    IF cleanup = "sessionErr" /\ l.exe.result.ExitCode = 0
      THEN [l.exe.result EXCEPT !.Stderr = @ \o CleanupWarning]
      ELSE l.exe.result

(* cleanupTempFile: the session cannot be opened (the error is returned),  *)
(* or rm -f is run and its own error is dropped; then the return of        *)
(* ExecuteScriptWithBecome                                                 *)
ScriptCleanup ==
    /\ cpc = "s_cleanup"
    /\ \E c \in {"sessionErr", "rmOk", "rmFail"} :
          LET l == [(IF c = "sessionErr" THEN loc
                     ELSE SessionInHelper(loc, "s", "cleanupSession")) EXCEPT
                       !.cleanup = c, !.log = Append(@, "cleanup")]
              fs == IF c = "rmOk" THEN Remove(remote, loc.temp) ELSE remote
          IN IF loc.exe.err # Nil
               THEN ClientReturn(loc.exe.result, loc.exe.err, l, fs)
               ELSE ClientReturn(ScriptResult(l, c), Nil, l, fs)

ScriptNext ==
    \/ Tick
    \/ CallExecuteWithBecome
    \/ CallExecuteScriptWithBecome
    \/ UploadOpenLocal
    \/ UploadConnect
    \/ UploadCheckFileExists
    \/ UploadDecide
    \/ UploadCreateSCPClient
    \/ UploadCopyStart
    \/ UploadCopyFinish
    \/ ScriptUploaded
    \/ ScriptDialCleanup
    \/ ExecConnect
    \/ ExecStart
    \/ RemoteWrite
    \/ RemoteExit
    \/ ExecReadStdout
    \/ ExecReadStderr
    \/ ExecWait
    \/ ScriptAfterExecute
    \/ ScriptCleanup

SpecScript == ClientInit /\ [][ScriptNext]_vars

(***************************************************************************)
(* Properties of ExecuteWithBecome and ExecuteScriptWithBecome             *)
(***************************************************************************)
ScriptReturned == cpc = "idle" /\ op.kind = "script"
ScriptWasUploaded == loc.upl # Nil /\ loc.upl.err = Nil

(* C15: once the script has been uploaded to its temp path, every return   *)
(* of ExecuteScriptWithBecome is preceded by a call of cleanupTempFile,    *)
(* whether the script succeeded, exited non-zero or could not be run.      *)
C15_CleanupAlwaysAttempted ==
    (ScriptReturned /\ ScriptWasUploaded) => loc.cleanup # "none"

(* C16: when cleanupTempFile reports a failure and the script succeeded,   *)
(* the returned Result is the script's Result with the warning appended to *)
(* Stderr, ExitCode 0 and no error; and whatever the cleanup did, ExitCode *)
(* and Error of a returned script Result, and the returned error, are      *)
(* those ExecuteWithBecome produced.                                       *)
C16_CleanupFailureIsWarning ==
    (ScriptReturned /\ ScriptWasUploaded /\ loc.exe # Nil) =>
        /\ ret.err = loc.exe.err
        /\ loc.exe.result # Nil =>
              /\ ret.result.ExitCode = loc.exe.result.ExitCode
              /\ ret.result.Error = loc.exe.result.Error
        /\ (loc.cleanup = "sessionErr" /\ loc.exe.err = Nil
               /\ loc.exe.result.ExitCode = 0) =>
              /\ ret.result.Stderr = loc.exe.result.Stderr \o CleanupWarning
              /\ ret.result.ExitCode = 0
              /\ ret.result.Error = Nil
              /\ ret.err = Nil

C16_Witness ==
    /\ ScriptReturned /\ ScriptWasUploaded
    /\ loc.cleanup = "sessionErr"
    /\ loc.exe # Nil /\ loc.exe.err = Nil
    /\ ret.result.ExitCode = 0
    /\ ret.result.Stderr = CleanupWarning

(* C17: a Result of execute with ExitCode 0 and no error is produced only  *)
(* when waiting for the remote command reported no error at all.           *)
C17_ZeroExitOnlyWithoutError ==
    (cpc = "idle" /\ op.kind = "execute" /\ ret.result # Nil
        /\ ret.result.ExitCode = 0 /\ ret.result.Error = Nil /\ ret.err = Nil)
      => loc.waitErr = "none"

(* C29: every connection and session opened by execute, uploadFile or     *)
(* executeScript is released on all exit paths: when UploadFile or         *)
(* ExecuteWithBecome returns inside a script run nothing it opened is      *)
(* still open, and when the called operation has returned - with success,  *)
(* a non-zero exit or an error at any step - nothing at all is open.       *)
C29_AllReleasedOnReturn ==
    /\ (cpc = "idle" /\ op # NoOp) => loc.open = {}
    /\ cpc = "s_uploaded" => \A r \in loc.open : r.frame # "u"
    /\ cpc = "s_after" => \A r \in loc.open : r.frame # "e"

(* A script run whose command could not be started has returned its error  *)
(* after opening the upload connection, the cleanup connection and the     *)
(* connection and session of the execution.                                *)
C29_Witness ==
    /\ ScriptReturned
    /\ ret.err # Nil /\ ret.err.kind = "start"
    /\ {Resource("u", "conn"), Resource("s", "conn"), Resource("e", "conn"),
        Resource("e", "session")} \subseteq loc.opened

(* The command line given to session.Start, once the command runs *)
CommandStarted == cpc \in {"e_readout", "e_readerr", "e_wait"}
SentCommand == loc.log[Len(loc.log)]

(* The command lines with which sudo runs command as user target *)
SudoLines(command, target) ==
    {"sudo -u " \o target \o " " \o command}
       \cup (IF target = "root" THEN {"sudo " \o command} ELSE {})

(* C32: with become set, the command line sent to the host is the command  *)
(* of the call behind a sudo prefix that runs it as becomeUser, as root    *)
(* when becomeUser is empty; without become it is the command of the call, *)
(* whatever becomeUser is.                                                 *)
C32_SudoPrefixTargetsUser ==
    CommandStarted =>
        IF op.args.become
          THEN SentCommand \in
                  SudoLines(loc.command, IF op.args.becomeUser = "" THEN "root"
                                         ELSE op.args.becomeUser)
          ELSE SentCommand = loc.command
C32_Witness ==
    /\ CommandStarted
    /\ op.kind = "script"
    /\ op.args.become /\ op.args.becomeUser = "app"
    /\ SentCommand = "sudo -u app bash " \o loc.temp

(***************************************************************************)
(* One ExecuteWithBecome call and the remote command it starts             *)
(* (SpecStreams).  The goroutine of the call and the remote command each   *)
(* take their next step whenever they can.                                 *)
(***************************************************************************)
StreamsNext ==
    \/ CallExecuteEmitting
    \/ ExecConnect
    \/ ExecStart
    \/ RemoteWrite
    \/ RemoteExit
    \/ ExecReadStdout
    \/ ExecReadStderr
    \/ ExecWait

SpecStreams ==
    /\ ClientInit
    /\ [][StreamsNext]_vars
    /\ WF_vars(ExecConnect)
    /\ WF_vars(ExecStart)
    /\ WF_vars(RemoteWrite)
    /\ WF_vars(RemoteExit)
    /\ WF_vars(ExecReadStdout)
    /\ WF_vars(ExecReadStderr)
    /\ WF_vars(ExecWait)

(* The chunks a program writes to one of its streams, as the reader of     *)
(* that stream receives them                                               *)
RECURSIVE WrittenTo(_, _, _)
WrittenTo(program, stream, chunk) ==
    IF program = <<>> THEN ""
    ELSE (IF Head(program) = stream THEN chunk ELSE "")
           \o WrittenTo(Tail(program), stream, chunk)

ExecuteReturned == cpc = "idle" /\ op.kind = "execute" /\ ret # Nil

(* The call waits in io.ReadAll(stdout) for a chunk or EOF while the       *)
(* command waits for room to write a chunk                                 *)
ReaderAndCommandBlocked ==
    /\ cpc = "e_readout"
    /\ loc.outBuf = 0 /\ ~loc.eof
    /\ loc.written < Len(loc.program)
    /\ loc.outBuf + loc.errBuf = PipeCap

(* When ExecuteWithBecome reaches session.Wait() both pipes were read to   *)
(* EOF: everything the command wrote is in output and errOutput.           *)
DrainedBeforeWait ==
    cpc = "e_wait" =>
        /\ loc.eof /\ loc.outBuf = 0 /\ loc.errBuf = 0
        /\ loc.output = WrittenTo(loc.program, "out", "o")
        /\ loc.errOutput = WrittenTo(loc.program, "err", "e")

(* C30: whatever the remote command writes to stdout and stderr, and in    *)
(* whatever order, once it has been started ExecuteWithBecome reads both   *)
(* pipes to their end, waits for the command and returns.                  *)
C30_ExecuteDrainsAndReturns ==
    (cpc = "e_readout") ~> ExecuteReturned

(***************************************************************************)
(* Part 5: the ping probe (Client.PingWithTimeout, called by executePing)  *)
(*                                                                         *)
(* Three goroutines: the caller, the one that runs ssh.Dial and the one    *)
(* that runs conn.NewSession.  ssh.Dial and NewSession may never return.   *)
(* A select with several ready cases takes any of them.  The deferred      *)
(* calls of the caller (session.Close, conn.Close, cancel) run at its      *)
(* return.                                                                 *)
(***************************************************************************)
PingHosts == {AddrOf[i] : i \in 1..MaxHosts}

PingResultOf(host, success, err) == [Host |-> host, Success |-> success, Error |-> err]

PingInit ==
    /\ ctx = "live"
    /\ ppc \in {[at |-> "selectDial", host |-> h, defers |-> <<"cancel">>,
                  res |-> Nil, err |-> Nil] : h \in PingHosts}
    /\ dialer = [pc |-> "dialing", out |-> "pending"]
    /\ dialCh = <<>>
    /\ opener = [pc |-> "none", out |-> "pending"]
    /\ sessionCh = <<>>
    /\ sessionErrCh = <<>>
    /\ connState = "none"
    /\ sessState = "none"
    /\ pingRet = Nil
    /\ RunIdle
    /\ ClientIdle
    /\ source = <<>>
    /\ resolved = <<>>
    /\ earlier = <<>>
    /\ listed = <<>>
    /\ hosts = <<>>
    /\ concurrency = 0
    /\ mainpc = "idle"
    /\ spawned = 0
    /\ pc = <<>>
    /\ panicking = <<>>
    /\ outcome = <<>>
    /\ results = <<>>
    /\ semaphore = 0
    /\ wg = 0
    /\ tracker = <<>>

(* return res, e: the deferred calls are still to run.  The deferred       *)
(* session.Close is registered just before the successful return.          *)
PingReturn(res, e, closeSession) ==
    ppc' = [ppc EXCEPT !.at = "defers", !.res = res, !.err = e,
                       !.defers = IF closeSession
                                    THEN <<"session.Close">> \o @ ELSE @]

(* The timer of context.WithTimeout fires *)
PingTimeout ==
    /\ ctx = "live"
    /\ ctx' = "timeout"
    /\ UNCHANGED <<ppc, dialer, dialCh, opener, sessionCh, sessionErrCh,
                   connState, sessState, pingRet,
                   execVars, invVars, runVars, clientVars>>

(* ssh.Dial returns in its goroutine *)
DialComplete ==
    /\ dialer.pc = "dialing"
    /\ \/ /\ dialer' = [pc |-> "select", out |-> "ok"]
          /\ connState' = "open"
       \/ /\ dialer' = [pc |-> "select", out |-> "err"]
          /\ UNCHANGED connState
    /\ UNCHANGED <<ctx, ppc, dialCh, opener, sessionCh, sessionErrCh,
                   sessState, pingRet, execVars, invVars, runVars, clientVars>>

(* select { case dialCh <- dialResult{conn, err}: ; case <-ctx.Done(): close } *)
DialSelect ==
    /\ dialer.pc = "select"
    /\ dialer' = [dialer EXCEPT !.pc = "done"]
    /\ \/ /\ Len(dialCh) < 1
          /\ dialCh' = <<[conn |-> dialer.out = "ok",
                          err |-> IF dialer.out = "ok" THEN Nil ELSE ErrOf("dial")]>>
          /\ UNCHANGED connState
       \/ /\ ctx # "live"
          /\ connState' = IF dialer.out = "ok" THEN "closed" ELSE connState
          /\ UNCHANGED dialCh
    /\ UNCHANGED <<ctx, ppc, opener, sessionCh, sessionErrCh,
                   sessState, pingRet, execVars, invVars, runVars, clientVars>>

(* The first select of the caller: the dial result or ctx.Done() *)
MainSelectDial_noTimeout ==
    /\ ppc.at = "selectDial"
    /\ Len(dialCh) = 1
    /\ dialCh' = <<>>
    /\ IF dialCh[1].err # Nil
         THEN /\ PingReturn(PingResultOf(ppc.host, FALSE, dialCh[1].err),
                            dialCh[1].err, FALSE)
              /\ UNCHANGED opener
         ELSE /\ ppc' = [ppc EXCEPT !.at = "selectSession",
                                    !.defers = <<"conn.Close">> \o @]
              /\ opener' = [pc |-> "opening", out |-> "pending"]
    /\ UNCHANGED <<ctx, connState, sessState, pingRet, dialer, sessionCh,
                   sessionErrCh, execVars, invVars, runVars, clientVars>>
MainSelectDial ==
    /\ ppc.at = "selectDial"
    /\ \/ /\ Len(dialCh) = 1
          /\ dialCh' = <<>>
          /\ IF dialCh[1].err # Nil
               THEN /\ PingReturn(PingResultOf(ppc.host, FALSE, dialCh[1].err),
                                  dialCh[1].err, FALSE)
                    /\ UNCHANGED opener
               ELSE /\ ppc' = [ppc EXCEPT !.at = "selectSession",
                                          !.defers = <<"conn.Close">> \o @]
                    /\ opener' = [pc |-> "opening", out |-> "pending"]
       \/ /\ ctx # "live"
          /\ PingReturn(PingResultOf(ppc.host, FALSE, ErrOf("connect timeout")),
                        ErrOf("connect timeout"), FALSE)
          /\ UNCHANGED <<dialCh, opener>>
    /\ UNCHANGED <<ctx, connState, sessState, pingRet, dialer, sessionCh,
                   sessionErrCh, execVars, invVars, runVars, clientVars>>

(* conn.NewSession returns in its goroutine; it cannot succeed on a closed *)
(* connection                                                              *)
OpenSession ==
    /\ opener.pc = "opening"
    /\ \/ /\ connState = "open"
          /\ opener' = [pc |-> "select", out |-> "ok"]
          /\ sessState' = "open"
       \/ /\ opener' = [pc |-> "select", out |-> "err"]
          /\ UNCHANGED sessState
    /\ UNCHANGED <<ctx, ppc, dialer, dialCh, sessionCh, sessionErrCh,
                   connState, pingRet, execVars, invVars, runVars, clientVars>>

(* The select of the session goroutine: send the error or the session, or  *)
(* on ctx.Done() close the session                                         *)
SessionSelect ==
    /\ opener.pc = "select"
    /\ opener' = [opener EXCEPT !.pc = "done"]
    /\ \/ /\ opener.out = "err"
          /\ Len(sessionErrCh) < 1
          /\ sessionErrCh' = <<ErrOf("session")>>
          /\ UNCHANGED <<sessionCh, sessState>>
       \/ /\ opener.out = "ok"
          /\ Len(sessionCh) < 1
          /\ sessionCh' = <<"session">>
          /\ UNCHANGED <<sessionErrCh, sessState>>
       \/ /\ ctx # "live"
          /\ sessState' = IF opener.out = "ok" THEN "closed" ELSE sessState
          /\ UNCHANGED <<sessionCh, sessionErrCh>>
    /\ UNCHANGED <<ctx, ppc, dialer, dialCh, connState, pingRet,
                   execVars, invVars, runVars, clientVars>>

(* The second select of the caller: the session, the error or ctx.Done() *)
MainSelectSession_successOnTimeout ==
    /\ ppc.at = "selectSession"
    /\ \/ /\ Len(sessionCh) = 1
          /\ sessionCh' = <<>>
          /\ PingReturn(PingResultOf(ppc.host, TRUE, Nil), Nil, TRUE)
          /\ UNCHANGED sessionErrCh
       \/ /\ Len(sessionErrCh) = 1
          /\ sessionErrCh' = <<>>
          /\ PingReturn(PingResultOf(ppc.host, FALSE, ErrOf("create session failed")),
                        sessionErrCh[1], FALSE)
          /\ UNCHANGED sessionCh
       \/ /\ ctx # "live"
          /\ PingReturn(PingResultOf(ppc.host, TRUE, Nil), Nil, FALSE)
          /\ UNCHANGED <<sessionCh, sessionErrCh>>
    /\ UNCHANGED <<ctx, connState, sessState, pingRet, dialer, dialCh, opener,
                   execVars, invVars, runVars, clientVars>>
MainSelectSession ==
    /\ ppc.at = "selectSession"
    /\ \/ /\ Len(sessionCh) = 1
          /\ sessionCh' = <<>>
          /\ PingReturn(PingResultOf(ppc.host, TRUE, Nil), Nil, TRUE)
          /\ UNCHANGED sessionErrCh
       \/ /\ Len(sessionErrCh) = 1
          /\ sessionErrCh' = <<>>
          /\ PingReturn(PingResultOf(ppc.host, FALSE, ErrOf("create session failed")),
                        sessionErrCh[1], FALSE)
          /\ UNCHANGED sessionCh
       \/ /\ ctx # "live"
          /\ PingReturn(PingResultOf(ppc.host, FALSE, ErrOf("session timeout")),
                        ErrOf("deadline exceeded"), FALSE)
          /\ UNCHANGED <<sessionCh, sessionErrCh>>
    /\ UNCHANGED <<ctx, connState, sessState, pingRet, dialer, dialCh, opener,
                   execVars, invVars, runVars, clientVars>>

(* The deferred calls of PingWithTimeout, last registered first *)
MainDefer ==
    /\ ppc.at = "defers"
    /\ ppc.defers # <<>>
    /\ ppc' = [ppc EXCEPT !.defers = Tail(@)]
    /\ sessState' = IF Head(ppc.defers) = "session.Close" THEN "closed"
                    ELSE sessState
    /\ connState' = IF Head(ppc.defers) = "conn.Close" THEN "closed"
                    ELSE connState
    /\ ctx' = IF Head(ppc.defers) = "cancel" /\ ctx = "live" THEN "cancelled"
              ELSE ctx
    /\ UNCHANGED <<dialer, dialCh, opener, sessionCh, sessionErrCh, pingRet,
                   execVars, invVars, runVars, clientVars>>

(* The caller, executePing, gets (result, err): it stores a failed          *)
(* PingResult of its own when err != nil, result otherwise                 *)
MainReturn ==
    /\ ppc.at = "defers"
    /\ ppc.defers = <<>>
    /\ ppc' = [ppc EXCEPT !.at = "returned"]
    /\ pingRet' = [result |-> ppc.res, err |-> ppc.err,
                   stored |-> IF ppc.err # Nil
                                THEN PingResultOf(ppc.host, FALSE, ppc.err)
                                ELSE ppc.res]
    /\ UNCHANGED <<ctx, dialer, dialCh, opener, sessionCh, sessionErrCh,
                   connState, sessState, execVars, invVars, runVars, clientVars>>

PingNext ==
    \/ PingTimeout
    \/ DialComplete
    \/ DialSelect
    \/ MainSelectDial
    \/ OpenSession
    \/ SessionSelect
    \/ MainSelectSession
    \/ MainDefer
    \/ MainReturn

(* The timer fires, and the caller runs whenever one of the cases of its   *)
(* select is ready; nothing makes ssh.Dial or NewSession return.           *)
SpecPing ==
    /\ PingInit
    /\ [][PingNext]_vars
    /\ WF_vars(PingTimeout)
    /\ WF_vars(MainSelectDial)
    /\ WF_vars(MainSelectSession)
    /\ WF_vars(MainDefer)
    /\ WF_vars(MainReturn)

(***************************************************************************)
(* Properties of the ping probe                                            *)
(***************************************************************************)
PingReturned == ppc.at = "returned"
PingQuiescent ==
    PingReturned /\ dialer.pc = "done" /\ opener.pc \in {"none", "done"}

(* C18: once the caller has returned and both goroutines have finished, no *)
(* connection and no session is still open, and no connection or session  *)
(* sits in a channel.                                                      *)
C18_AllReleased ==
    PingQuiescent =>
        /\ connState # "open"
        /\ sessState # "open"
        /\ \A k \in 1..Len(dialCh) : ~dialCh[k].conn
        /\ sessionCh = <<>>

(* C19: the probe reports success only if the connect and the session open *)
(* both completed without error; a connect error, a session-open error, or *)
(* a return while either step is still pending (the timeout) gives         *)
(* success=false with a non-nil error.                                     *)
C19_SuccessOnlyIfBothSteps ==
    PingReturned =>
        /\ pingRet.stored.Success =>
              /\ dialer.out = "ok" /\ opener.out = "ok"
              /\ pingRet.stored.Error = Nil /\ pingRet.err = Nil
        /\ ~pingRet.stored.Success =>
              /\ pingRet.stored.Error # Nil /\ pingRet.err # Nil
        /\ (dialer.out # "ok" \/ opener.out # "ok") =>
              /\ ~pingRet.stored.Success
              /\ ~pingRet.result.Success
              /\ pingRet.result.Error # Nil

C19_Witness ==
    /\ PingReturned
    /\ ctx = "timeout"
    /\ dialer.out = "ok" /\ opener.pc = "opening"
    /\ ~pingRet.stored.Success

(* C20: PingWithTimeout always returns, and once the timeout has fired it  *)
(* returns even when ssh.Dial never returns or the connect succeeded and   *)
(* NewSession never returns.                                               *)
C20_ReturnsAfterTimeout ==
    /\ <>PingReturned
    /\ (ctx = "timeout") ~> PingReturned

C20_Witness ==
    /\ PingReturned
    /\ ctx = "timeout"
    /\ \/ dialer.pc = "dialing"
       \/ opener.pc = "opening"

(***************************************************************************)
(* Part 6: consecutive commands over one inventory source                  *)
(*                                                                         *)
(* SpecCommands follows two commands a user runs against one source: two   *)
(* host resolutions (controller.LoadHosts), each with a -g value of its    *)
(* own.  The files do not change between the commands.                     *)
(***************************************************************************)
MaxCmdLines == 2    \* lines of the first (or only) file of the source
MaxCmdLines2 == 1   \* lines of every further file
MaxCmdParts == 2    \* entries of a literal address list

CommandsInit ==
    /\ source \in Sources(MaxCmdLines, MaxCmdLines2, MaxCmdParts)
    /\ resolved = NoCall
    /\ earlier = NoCall
    /\ listed = NoCall
    /\ hosts = <<>>
    /\ concurrency = 0
    /\ mainpc = "idle"
    /\ spawned = 0
    /\ pc = <<>>
    /\ panicking = <<>>
    /\ outcome = <<>>
    /\ results = <<>>
    /\ semaphore = 0
    /\ wg = 0
    /\ tracker = <<>>
    /\ RunIdle
    /\ ClientIdle
    /\ PingIdle

(* A second command resolves the hosts of the same source:                 *)
(* controller.LoadHosts with the -g value of that command                  *)
ResolveAgain_sharedHostMap ==
    /\ resolved # NoCall
    /\ earlier = NoCall
    /\ earlier' = resolved
    /\ \E g \in GroupExprs :
          LET r == LoadHosts(source, g)
              seen == {hostKey(resolved.out.hosts[k]) :
                          k \in 1..Len(resolved.out.hosts)}
          IN resolved' = [fn |-> "LoadHosts", group |-> g,
                          out |-> [r EXCEPT !.hosts =
                                     SelectSeq(r.hosts,
                                         LAMBDA h : hostKey(h) \notin seen)]]
    /\ UNCHANGED <<laterVars, source, listed, execVars>>
ResolveAgain ==
    /\ resolved # NoCall
    /\ earlier = NoCall
    /\ earlier' = resolved
    /\ \E g \in GroupExprs :
          resolved' = [fn |-> "LoadHosts", group |-> g, out |-> LoadHosts(source, g)]
    /\ UNCHANGED <<laterVars, source, listed, execVars>>

CommandsNext ==
    \/ ResolveHosts
    \/ ResolveAgain

SpecCommands == CommandsInit /\ [][CommandsNext]_vars

(***************************************************************************)
(* Properties of the commands                                              *)
(***************************************************************************)
Listed == listed # NoCall

(* The source is a string that names no existing path (and -i was given) *)
IsLiteral == source.kind = "string" /\ source.text # <<>>

(* The hosts a literal comma-separated list stands for: every non-empty    *)
(* entry, in order, as [user@]host[:port] with port 22 when none is given  *)
(* and no groups.                                                          *)
RECURSIVE LiteralHosts(_)
LiteralHosts(parts) ==
    IF parts = <<>> THEN <<>>
    ELSE IF TrimSpace(Head(parts)) = <<>> THEN LiteralHosts(Tail(parts))
    ELSE LET c == ExpectedContact(TrimSpace(Head(parts)),
                                  [Port |-> "22", User |-> "", KeyPath |-> ""])
         IN <<[Address |-> c.Address, Port |-> c.Port, User |-> c.User,
               KeyPath |-> "", Groups |-> <<>>]>> \o LiteralHosts(Tail(parts))

(* C23: a source string that is not an existing path is a literal address  *)
(* list, also when it is a single address without a comma: resolution      *)
(* yields its entries parsed as [user@]host[:port] with port 22 and no     *)
(* groups, group listing yields no groups, and neither of the two rejects  *)
(* a source the other accepts.                                             *)
C23_NonPathIsLiteralList ==
    IsLiteral =>
        LET expected == LiteralHosts(Split(source.text, ","))
        IN /\ (Called /\ expected # <<>>) =>
                  /\ resolved.out.ok
                  /\ resolved.out.hosts = expected
           /\ Listed => (listed.out.ok /\ listed.out.groups = <<>>)
           /\ (Called /\ Listed /\ expected # <<>>) =>
                  (resolved.out.ok <=> listed.out.ok)

CalledTwice == earlier # NoCall /\ resolved # NoCall

(* The group expressions that ask for every host *)
Unfiltered == {<<>>, <<"all">>}

(* C24: the group expressions "all" and "" give identical resolutions of   *)
(* the same source (same hosts, same order, same groups, same outcome),    *)
(* and under either of them every host written in the source is matched,   *)
(* a host with zero groups included.                                       *)
C24_AllEqualsEmpty ==
    /\ (CalledTwice /\ {earlier.group, resolved.group} = Unfiltered) =>
           earlier.out = resolved.out
    /\ (Called /\ resolved.group \in Unfiltered /\ resolved.out.ok) =>
           \A k \in 1..Len(SourcePairs) :
               \E n \in 1..Len(resolved.out.hosts) :
                   SameIdentity(resolved.out.hosts[n], SourcePairs[k].host)

(* The source was resolved with "" and then with "all"; the result has a   *)
(* host without groups and a host with a group.                            *)
C24_Witness ==
    /\ CalledTwice
    /\ earlier.group = <<>>
    /\ resolved.group = <<"all">>
    /\ resolved.out.ok
    /\ \E n, m \in 1..Len(resolved.out.hosts) :
          /\ resolved.out.hosts[n].Groups = <<>>
          /\ resolved.out.hosts[m].Groups # <<>>

(* C25: under a specific group filter (non-empty, not all) every host of a *)
(* successful resolution has at least one group of the filter, whatever    *)
(* the kind of source; a literal address list, whose hosts have no groups, *)
(* yields no host under such a filter.                                     *)
C25_SpecificFilterKeepsOnlyMembers ==
    (Called /\ IsSpecificFilter(resolved.group) /\ resolved.out.ok) =>
        \A n \in 1..Len(resolved.out.hosts) :
            Elems(resolved.out.hosts[n].Groups)
                \cap FilterNames(resolved.group) # {}

(* The groups under which the identity (address, port) of h is written in  *)
(* the pairs, in first-seen order and without duplicates.                  *)
RECURSIVE GroupsWritten(_, _, _)
GroupsWritten(h, pairs, acc) ==
    IF pairs = <<>> THEN acc
    ELSE LET p == Head(pairs)
         IN IF SameIdentity(p.host, h) /\ p.group # "" /\ p.group \notin Elems(acc)
              THEN GroupsWritten(h, Tail(pairs), Append(acc, p.group))
              ELSE GroupsWritten(h, Tail(pairs), acc)

(* C26: entries with the same identity key are merged into one Host whose  *)
(* groups is the union, in first-seen order and without duplicates, of the *)
(* groups of all its occurrences in the source, also when a specific group *)
(* filter selected the host through only some of those groups.             *)
C26_GroupsAreUnionOfOccurrences ==
    (Called /\ resolved.out.ok) =>
        \A n \in 1..Len(resolved.out.hosts) :
            resolved.out.hosts[n].Groups =
                GroupsWritten(resolved.out.hosts[n], SourcePairs, <<>>)

(* Every host entry written in the source, in reading order, as parsed. *)
Occurrences ==
    IF source.kind = "string" THEN LiteralHosts(Split(source.text, ","))
    ELSE [k \in 1..Len(SourcePairs) |-> SourcePairs[k].host]

(* The first entry of the source with the identity of h *)
FirstOccurrence(h) ==
    Occurrences[CHOOSE k \in 1..Len(Occurrences) :
                    /\ SameIdentity(Occurrences[k], h)
                    /\ \A m \in 1..(k - 1) : ~SameIdentity(Occurrences[m], h)]

(* C27: when an identity key occurs more than once in the source, the      *)
(* resolved Host carries the user and keyPath of its first occurrence;     *)
(* later duplicates never overwrite them.                                  *)
C27_FirstOccurrenceWins ==
    (Called /\ resolved.out.ok) =>
        \A n \in 1..Len(resolved.out.hosts) :
            LET h == resolved.out.hosts[n]
            IN (\E k \in 1..Len(Occurrences) : SameIdentity(Occurrences[k], h))
               => /\ h.User = FirstOccurrence(h).User
                  /\ h.KeyPath = FirstOccurrence(h).KeyPath

====
